---- MODULE Spec2Model ----
(***************************************************************************)
(* A model of the memory subsystem of redis-chat: the per-store search     *)
(* indexes, the semantic / episodic / long-term memory stores, the working *)
(* memory aggregator, the chat transcript store and the chat controllers.  *)
(* Redis is modelled by what its commands do to the keys and indexes the   *)
(* program uses; the embedding and LLM capabilities are inputs.            *)
(***************************************************************************)
EXTENDS Integers, Sequences, FiniteSets, TLC

(***************************************************************************)
(* Bounds of the model.                                                    *)
(***************************************************************************)
\* Consecutive Initialize calls for one index that are counted (the counter
\* saturates here).
MaxInitCalls == 3
\* Ids createUid() hands out in a run of the semantic store alone.
MaxSemDocs == 2
\* Ids createUid() hands out in a run of the working memory.
MaxDocs == 3
\* Ids createUid() hands out in a run of the rich long-term store.
MaxLtDocs == 2
\* Memories one extract call is given by the LLM.
MaxExtract == 1
\* Ids createUid() hands out to chats and their messages in a run.
MaxChatUids == 3
\* Milliseconds that pass in a run.
MaxClock == 1
\* processChat calls in a run.
MaxTurns == 2
\* Ids createUid() hands out to the memory tools in a run of the controller.
MaxToolDocs == 1
\* Documents in a reply of Redis handed to search().
MaxReply == 3
\* handleMessage calls in a run.
MaxCalls == 2
\* Ids createUid() hands out in a run of the episodic and legacy stores.
MaxStoreDocs == 2
\* Calls of one controller in a run that follows placeholders.
MaxReplaceCalls == 2
\* Chats, and ids handed out, in a run of overlapping ChatModel calls.
MaxConcChats == 2
MaxConcUids == 4
\* Chats of the user whose chats AllChats lists, and of another user.
MaxAllChats == 11
MaxOtherChats == 1
\* Messages pushed in a run of AllChats.
MaxPreviews == 1

Users == {"u1", "u2"}

VARIABLES
  \* ---- the search indexes (Redis FT._LIST) and the Initialize callers
  indexes,     \* set of index names that exist
  ipc,         \* caller -> "idle" | "listed" | "done" | "error"
  itarget,     \* caller -> the index name the call is for
  ikeys,       \* caller -> the result of its db.ft._list()
  lastInit,    \* the index name of the Initialize call that returned last
  initCalls,   \* number of calls for lastInit that returned in a row
  \* ---- the memory stores (JSON documents under each store's key prefix)
  nextUid,     \* number of ids createUid() has handed out
  sem,         \* semantic-memory:<id> -> document
  epi,         \* userId -> (users:u<userId>:memory:episodic:<id> -> document)
  lng,         \* userId -> (users:u<userId>:memory:longterm:<id> -> document)
  expiry,      \* key -> seconds to live, for the keys that have an expiration
  ret,         \* what the last store call was given and what it returned
  \* ---- the rich long-term store (memory:longterm:<id> -> document)
  ltm,         \* key -> document
  ltUid,       \* number of ids its createUid() has handed out
  ltRet,       \* what the last call of the store was given and returned
  \* ---- the chat transcripts (users:u<userId>:memory:conversations:c<id>)
  chats,       \* key -> chat document
  chatUid,     \* number of ids the chat models' createUid() has handed out
  clock,       \* Date.now()
  pushed,      \* key -> the messages push returned since the chat was
               \*        created or cleared last, in call order
  chatRet,     \* what the last ChatModel call was given and returned
  \* ---- the chat controller (processChat, ask) and its callers
  pc,          \* handler -> where its processChat call stands
  turn,        \* handler -> the locals of its processChat / ask call
  sent,        \* handler -> what its call has passed to send(), in order
  turns,       \* number of processChat calls started
  llmCalls,    \* number of answerPrompt calls made
  \* ---- the prompt-cache controller (handleMessage, askLlm) and its store
  hpc,         \* handler -> where its handleMessage call stands
  call,        \* handler -> the locals of its handleMessage call
  hsent,       \* handler -> what its call has passed to send(), in order
  streams,     \* sessionId -> the entries of the stream chat:<sessionId>
  msgs,        \* message:<sessionId>:<id> -> the text of the message
  streamIds,   \* number of entry ids XADD has handed out
  cache,       \* global_memory:<id> -> cached answer document
  calls,       \* number of handleMessage calls started
  hist,        \* the last two handleMessage calls that returned, in order
  lost,        \* a cached document expired or was deleted since the last
               \*   handleMessage call started
  \* ---- ChatModel calls in flight (callers whose calls overlap)
  cpc,         \* caller -> "idle" | "awaiting"
  cop,         \* caller -> the call it made last: its command and argument
  \* ---- the registry of Redis clients (redis.ts)
  clients,     \* url -> the client registered for it, 0 for none
  made,        \* the clients createClient has made, in order: url, destroyed
  retries,     \* url -> the reconnects counted for it
  connectionsRefused, \* url -> an ECONNREFUSED error was logged for it
  refreshed,   \* url -> number of refreshClient calls made for it
  errors,      \* number of error events delivered
  rcRet,       \* the last getClient call or error event
  \* ---- one websocket connection of the chat (onConnection)
  currentChatId,   \* let currentChatId: string | undefined
  sessionChatId,   \* req.session.currentChatId as saved last
  summarized       \* ids of the messages given to the summarize calls whose
                   \* summary updateSummary has stored

idxVars == <<indexes, ipc, itarget, ikeys, lastInit, initCalls>>

memVars == <<nextUid, sem, epi, lng, expiry, ret>>

ltVars == <<ltm, ltUid, ltRet>>

chatVars == <<chats, chatUid, clock, pushed, chatRet>>

ctlVars == <<pc, turn, sent, turns, llmCalls>>

hmVars == <<hpc, call, hsent, streams, msgs, streamIds, cache, calls,
            hist, lost>>

ccVars == <<cpc, cop>>

rcVars == <<clients, made, retries, connectionsRefused, refreshed, errors,
            rcRet>>

wsVars == <<currentChatId, sessionChatId, summarized>>

vars == <<idxVars, memVars, ltVars, chatVars, ctlVars, hmVars, ccVars, rcVars, wsVars>>

\* what a step of one component leaves alone
exceptIdx == <<memVars, ltVars, chatVars, ctlVars, hmVars, ccVars, rcVars, wsVars>>

exceptMem == <<idxVars, ltVars, chatVars, ctlVars, hmVars, ccVars, rcVars, wsVars>>

exceptLt == <<idxVars, memVars, chatVars, ctlVars, hmVars, ccVars, rcVars, wsVars>>

exceptChat == <<idxVars, memVars, ltVars, ctlVars, hmVars, ccVars, rcVars, wsVars>>

exceptHm == <<idxVars, memVars, ltVars, chatVars, ctlVars, ccVars, rcVars, wsVars>>

(***************************************************************************)
(* Index names.  Key() and Index() of each store: the chat, episodic and   *)
(* legacy long-term stores have one index per user, the semantic store and *)
(* the rich long-term store have one index for everybody.                  *)
(***************************************************************************)
ChatIndex(userId) == <<"idx-users-u", userId, "-memory-conversations">>

SemanticIndex == <<"idx-semantic-memory", "", "">>

EpisodicIndex(userId) == <<"idx-users-u", userId, "-memory-episodic">>

LongIndex(userId) == <<"idx-users-u", userId, "-memory-longterm">>

LongTermIndex == <<"idx-long-term-memory", "", "">>

IndexNames ==
  {ChatIndex(u) : u \in Users} \cup {EpisodicIndex(u) : u \in Users}
    \cup {LongIndex(u) : u \in Users} \cup {SemanticIndex, LongTermIndex}

\* The callers of Initialize, and the indexes they initialize.
Callers == {"a", "b"}

InitTargets ==
  {ChatIndex("u1"), ChatIndex("u2"), SemanticIndex, EpisodicIndex("u1"),
   LongIndex("u1")}

IdxInit ==
  /\ indexes = {}
  /\ ipc = [c \in Callers |-> "idle"]
  /\ itarget = [c \in Callers |-> SemanticIndex]
  /\ ikeys = [c \in Callers |-> {}]
  /\ lastInit = SemanticIndex
  /\ initCalls = 0

(***************************************************************************)
(* Texts, embeddings and distances.  embed() is the caller's: a function   *)
(* of the text.  An embedding is a point on a line and the distance Redis  *)
(* reports for two of them is their gap, in hundredths: "q4" lies exactly  *)
(* at the default distanceThreshold (0.4) from "q0", and every text the    *)
(* table does not know has the same far-away embedding.                    *)
(***************************************************************************)
Texts == {"q0", "q1", "q2", "q3", "q4", "q9"}

Answers == {"a1", "a2"}

ChatIds == {"c1", "c2"}

embed(text) ==
  CASE text = "q0" -> 0
    [] text = "q1" -> 10
    [] text = "q2" -> 20
    [] text = "q3" -> 30
    [] text = "q4" -> 40
    [] OTHER -> 90

Abs(x) == IF x < 0 THEN -x ELSE x

\* the distance of the KNN query (DISTANCE_METRIC of the index)
Distance(a, b) == Abs(a - b)

\* distanceThreshold: 0.4, in hundredths
distanceThreshold == 40

\* topK: 1
topK == 1

\* A field a document does not have (JavaScript's undefined).
Undefined == "undefined"

Field(doc, name) == IF name \in DOMAIN doc THEN doc[name] ELSE Undefined

\* createUid(): the n-th id handed out
Uid(n) == ToString(n)

\* A string Redis returns for a number, and a string that is no number.
NumStr(n) == [numeric |-> TRUE, digits |-> n]

NoNumStr == [numeric |-> FALSE, digits |-> 0]

\* A JavaScript number: NaN compares false with everything.
NaN == [nan |-> TRUE, v |-> 0]

Num(n) == [nan |-> FALSE, v |-> n]

\* parseFloat(doc.value.distance as string)
parseFloat(str) == IF str.numeric THEN Num(str.digits) ELSE NaN

isNaN(x) == x.nan

\* x <= y for a number x and a finite y
NumLeq(x, y) == ~x.nan /\ x.v <= y

\* Array.prototype.filter / map
RECURSIVE SelectSeqOf(_, _)
SelectSeqOf(s, keep) ==
  IF s = <<>> THEN <<>>
  ELSE (IF Head(s) \in keep THEN <<Head(s)>> ELSE <<>>)
         \o SelectSeqOf(Tail(s), keep)

SeqRange(s) == {s[i] : i \in 1..Len(s)}

\* The time-to-live argument: absent, or a number.
NoTtl == [given |-> FALSE, v |-> 0]

Ttl(n) == [given |-> TRUE, v |-> n]

TtlArgs == {NoTtl, Ttl(-1), Ttl(0), Ttl(60)}

\* (a test of the argument's presence alone)
TtlGiven(ttl) == ttl.given

\* if (ttl && ttl > 0)
TtlPositive(ttl) == ttl.given /\ ttl.v # 0 /\ ttl.v > 0

(***************************************************************************)
(* Redis: FT.SEARCH "*=>[KNN k @field $BLOB AS distance]" SORTBY distance. *)
(* docs maps keys to documents; the reply holds the k documents nearest to *)
(* the query, nearest first, each with its distance as a string.  Which of *)
(* several documents at the same distance comes first is Redis's choice.   *)
(***************************************************************************)
Min(a, b) == IF a < b THEN a ELSE b

InjectiveSeqs(S, n) ==
  {s \in [1..n -> S] : \A i, j \in 1..n : i # j => s[i] # s[j]}

KnnKeys(docs, field, blob, k) ==
  LET keys == {key \in DOMAIN docs : field \in DOMAIN docs[key]}
      n == Min(k, Cardinality(keys))
      d(key) == Distance(docs[key][field], blob)
  IN {s \in InjectiveSeqs(keys, n) :
        /\ \A i \in 1..(n - 1) : d(s[i]) <= d(s[i + 1])
        /\ \A key \in keys \ SeqRange(s), i \in 1..n : d(s[i]) <= d(key)}

KnnReply(docs, field, blob, s) ==
  [i \in 1..Len(s) |->
     [id |-> s[i], value |-> docs[s[i]],
      distance |-> NumStr(Distance(docs[s[i]][field], blob))]]

KnnReplies(docs, field, blob, k) ==
  {KnnReply(docs, field, blob, s) : s \in KnnKeys(docs, field, blob, k)}

(***************************************************************************)
(* search(): what the three stores make of the reply.                      *)
(*   results.documents.map(doc => ({..., distance: parseFloat(...)}))      *)
(*     .filter(entry => !isNaN(entry.distance) &&                          *)
(*                      entry.distance <= this.options.distanceThreshold)  *)
(***************************************************************************)
\* (a gate that drops the entry at exactly the threshold)
WithinThresholdStrict(entry, threshold) ==
  ~isNaN(entry.distance) /\ entry.distance.v < threshold

WithinThreshold(entry, threshold) ==
  ~isNaN(entry.distance) /\ NumLeq(entry.distance, threshold)

FilterEntries(entries, threshold) ==
  SelectSeqOf(entries, {e \in SeqRange(entries) : WithinThreshold(e, threshold)})

SemanticEntry(doc) ==
  [id |-> Field(doc.value, "id"), question |-> Field(doc.value, "question"),
   answer |-> Field(doc.value, "answer"),
   distance |-> parseFloat(doc.distance)]

SemanticSearchResult(documents, threshold) ==
  FilterEntries([i \in 1..Len(documents) |-> SemanticEntry(documents[i])],
                threshold)

EpisodicEntry(doc) ==
  [summary |-> Field(doc.value, "summary"),
   chatId |-> Field(doc.value, "chatId"),
   distance |-> parseFloat(doc.distance)]

EpisodicSearchResult(documents, threshold) ==
  FilterEntries([i \in 1..Len(documents) |-> EpisodicEntry(documents[i])],
                threshold)

LongEntry(doc) ==
  [id |-> Field(doc.value, "id"), question |-> Field(doc.value, "question"),
   answer |-> Field(doc.value, "answer"),
   distance |-> parseFloat(doc.distance)]

LongSearchResult(documents, threshold) ==
  FilterEntries([i \in 1..Len(documents) |-> LongEntry(documents[i])],
                threshold)

(***************************************************************************)
(* The stores' state.                                                      *)
(***************************************************************************)
NoDocs == [key \in {} |-> Undefined]

NoRet == [op |-> "none"]

MemInit ==
  /\ nextUid = 0
  /\ sem = NoDocs
  /\ epi = [u \in Users |-> NoDocs]
  /\ lng = [u \in Users |-> NoDocs]
  /\ expiry = NoDocs
  /\ ret = NoRet

LtInit ==
  /\ ltm = NoDocs
  /\ ltUid = 0
  /\ ltRet = NoRet

ChatInit ==
  /\ chats = NoDocs
  /\ chatUid = 0
  /\ clock = 0
  /\ pushed = NoDocs
  /\ chatRet = NoRet

Handlers == {"h1", "h2"}

NoTurn == [userId |-> "none"]

CtlInit ==
  /\ pc = [h \in Handlers |-> "idle"]
  /\ turn = [h \in Handlers |-> NoTurn]
  /\ sent = [h \in Handlers |-> <<>>]
  /\ turns = 0
  /\ llmCalls = 0

SessionIds == {"s1"}

NoCall == [sessionId |-> "none"]

HmInit ==
  /\ hpc = [h \in Handlers |-> "idle"]
  /\ call = [h \in Handlers |-> NoCall]
  /\ hsent = [h \in Handlers |-> <<>>]
  /\ streams = [sessionId \in SessionIds |-> <<>>]
  /\ msgs = NoDocs
  /\ streamIds = 0
  /\ cache = NoDocs
  /\ calls = 0
  /\ hist = <<>>
  /\ lost = FALSE

\* no ChatModel call made yet
NoOp == [op |-> "none"]

CcInit ==
  /\ cpc = [c \in Callers |-> "idle"]
  /\ cop = [c \in Callers |-> NoOp]

\* the URLs clients are asked for
Urls == {"url1", "url2"}

\* let clients = {}; let retries = {}; let connectionsRefused = {}
RcInit ==
  /\ clients = [url \in Urls |-> 0]
  /\ made = <<>>
  /\ retries = [url \in Urls |-> 0]
  /\ connectionsRefused = [url \in Urls |-> FALSE]
  /\ refreshed = [url \in Urls |-> 0]
  /\ errors = 0
  /\ rcRet = NoOp

\* let currentChatId: string | undefined
WsInit ==
  /\ currentChatId = ""
  /\ sessionChatId = ""
  /\ summarized = {}

Init ==
  /\ IdxInit /\ MemInit /\ LtInit /\ ChatInit /\ CtlInit /\ HmInit /\ CcInit
  /\ RcInit /\ WsInit

\* JSON.SET key $ value
JsonSet(docs, key, value) ==
  [k \in DOMAIN docs \cup {key} |-> IF k = key THEN value ELSE docs[k]]

\* DEL key (also what an expiration does)
DelKey(docs, key) == [k \in DOMAIN docs \ {key} |-> docs[k]]

SemanticKey(id) == <<"semantic-memory", "", id>>

EpisodicKey(userId, id) == <<"episodic", userId, id>>

LongKey(userId, id) == <<"longterm", userId, id>>

\* EXPIRE key ttl
Expire(key, ttl) ==
  [k \in DOMAIN expiry \cup {key} |-> IF k = key THEN ttl.v ELSE expiry[k]]

ExpireIfPositive(key, ttl) ==
  expiry' = IF TtlPositive(ttl) THEN Expire(key, ttl) ELSE expiry

(***************************************************************************)
(* SemanticMemoryModel: search, add, update.                               *)
(***************************************************************************)
SemanticSearchResults(query) ==
  {SemanticSearchResult(reply, distanceThreshold) :
     reply \in KnnReplies(sem, "embedding", embed(query), topK)}

SemanticSearch(query) ==
  /\ \E result \in SemanticSearchResults(query) :
       ret' = [op |-> "semantic.search", query |-> query, result |-> result]
  /\ UNCHANGED <<nextUid, sem, epi, lng, expiry>>

\* the call search(query, topK) of a caller that names a K: search has the
\* one parameter query, a second argument is not read
SemanticSearchWith(query, requested) ==
  /\ \E result \in SemanticSearchResults(query) :
       ret' = [op |-> "semantic.search", query |-> query,
               requested |-> requested, result |-> result]
  /\ UNCHANGED <<nextUid, sem, epi, lng, expiry>>

\* the document add() writes
SemanticAddDoc(id, question, answer) ==
  [id |-> id, question |-> question, answer |-> answer,
   embedding |-> embed(question)]

SemanticAdd(question, answer, ttl) ==
  /\ LET id == Uid(nextUid + 1)
         key == SemanticKey(id)
     IN /\ nextUid' = nextUid + 1
        /\ sem' = JsonSet(sem, key, SemanticAddDoc(id, question, answer))
        /\ ExpireIfPositive(key, ttl)
        /\ ret' = [op |-> "semantic.add", question |-> question,
                   answer |-> answer, ttl |-> ttl, id |-> id, error |-> FALSE]
  /\ UNCHANGED <<epi, lng>>

\* the document update() writes
SemanticUpdateDoc(id, question, answer) ==
  [question |-> question, answer |-> answer, embedding |-> embed(question)]

\* (an EXISTS that answers 1 for every key)
ExistsAlways(docs, key) == TRUE

\* EXISTS key
Exists(docs, key) == key \in DOMAIN docs

SemanticUpdate(id, question, answer, ttl) ==
  LET key == SemanticKey(id)
  IN IF ~Exists(sem, key)
       THEN /\ ret' = [op |-> "semantic.update", question |-> question,
                       answer |-> answer, ttl |-> ttl, id |-> id,
                       error |-> TRUE]
            /\ UNCHANGED <<nextUid, sem, epi, lng, expiry>>
       ELSE /\ sem' = JsonSet(sem, key, SemanticUpdateDoc(id, question, answer))
            /\ ExpireIfPositive(key, ttl)
            /\ ret' = [op |-> "semantic.update", question |-> question,
                       answer |-> answer, ttl |-> ttl, id |-> id,
                       error |-> FALSE]
            /\ UNCHANGED <<nextUid, epi, lng>>

\* Time passes and Redis deletes a key whose expiration is due.
SemanticExpired(key) ==
  /\ key \in DOMAIN expiry
  /\ key \in DOMAIN sem
  /\ sem' = DelKey(sem, key)
  /\ expiry' = DelKey(expiry, key)
  /\ ret' = NoRet
  /\ UNCHANGED <<nextUid, epi, lng>>

SemIds == {Uid(n) : n \in 1..MaxSemDocs}

SemTexts == {"q0", "q4"}

SemQueries == {"q0", "q4", "q9"}

\* the K a caller may ask for
RequestedTopK == {1, 2}

NextSem ==
  \/ \E q \in SemQueries : SemanticSearch(q) /\ UNCHANGED exceptMem
  \/ \E q \in SemQueries, requested \in RequestedTopK :
       SemanticSearchWith(q, requested) /\ UNCHANGED exceptMem
  \/ \E q \in SemTexts, a \in Answers, ttl \in TtlArgs :
       nextUid < MaxSemDocs /\ SemanticAdd(q, a, ttl) /\ UNCHANGED exceptMem
  \/ \E id \in SemIds, q \in SemTexts, a \in Answers, ttl \in TtlArgs :
       SemanticUpdate(id, q, a, ttl) /\ UNCHANGED exceptMem
  \/ \E key \in DOMAIN expiry : SemanticExpired(key) /\ UNCHANGED exceptMem

SpecSem == Init /\ [][NextSem]_vars

(***************************************************************************)
(* The threshold gate of search(), on every reply Redis may give: up to    *)
(* MaxReply documents, the numeric distances in ascending order.           *)
(***************************************************************************)
RawDistances == {NumStr(0), NumStr(30), NumStr(40), NumStr(41), NoNumStr}

RawDocument(kind, i, dist) ==
  [id |-> <<kind, "u1", Uid(i)>>,
   value |-> IF kind = "episodic"
               THEN [summary |-> "q1", chatId |-> "c1"]
               ELSE [id |-> Uid(i), question |-> "q1", answer |-> "a1"],
   distance |-> dist]

Ascending(dists) ==
  \A i, j \in 1..Len(dists) :
    i < j /\ dists[i].numeric /\ dists[j].numeric
      => dists[i].digits <= dists[j].digits

RawReplies(kind) ==
  UNION {{[i \in 1..n |-> RawDocument(kind, i, dists[i])] :
            dists \in {d \in [1..n -> RawDistances] : Ascending(d)}} :
         n \in 0..MaxReply}

SearchReply(kind, documents) ==
  /\ ret' = [op |-> "search.reply", kind |-> kind, documents |-> documents,
             result |-> CASE kind = "semantic" ->
                               SemanticSearchResult(documents, distanceThreshold)
                          [] kind = "episodic" ->
                               EpisodicSearchResult(documents, distanceThreshold)
                          [] OTHER ->
                               LongSearchResult(documents, distanceThreshold)]
  /\ UNCHANGED <<nextUid, sem, epi, lng, expiry>>

NextThreshold ==
  \E kind \in {"semantic", "episodic", "long-term"} :
    \E documents \in RawReplies(kind) :
      SearchReply(kind, documents) /\ UNCHANGED exceptMem

SpecThreshold == Init /\ [][NextThreshold]_vars

SemanticKeysOf(docs, question) ==
  {key \in DOMAIN docs : Field(docs[key], "question") = question}

\* C4: adding a question to Semantic Memory that is already stored there
\* once leaves exactly one stored document for it, holding the answer of this
\* (second) add: the second add behaves as an update.
C4_SemanticAddDedup ==
  [][(/\ ret'.op = "semantic.add"
      /\ Cardinality(SemanticKeysOf(sem, ret'.question)) = 1)
       => (/\ Cardinality(SemanticKeysOf(sem', ret'.question)) = 1
           /\ \A key \in SemanticKeysOf(sem', ret'.question) :
                sem'[key].answer = ret'.answer)]_vars

(***************************************************************************)
(* X.Initialize(db, ...), the same code in every store:                    *)
(*     const keys = await db.ft._list();                                   *)
(*     if (keys.includes(index)) return;                                   *)
(*     await db.ft.create(index, schema, ...);                             *)
(* The list and the create are two commands; other callers' commands may   *)
(* reach Redis between them.  FT.CREATE of a name that exists is refused   *)
(* by Redis ("Index already exists"), which rejects the awaited promise.   *)
(***************************************************************************)
\* keys.includes(index)
\* (a list test that never finds the index)
KeysIncludeNever(keys, index) == FALSE

KeysInclude(keys, index) == index \in keys

\* const keys = await db.ft._list()
InitializeList(c, index) ==
  /\ ipc[c] = "idle"
  /\ ipc' = [ipc EXCEPT ![c] = "listed"]
  /\ itarget' = [itarget EXCEPT ![c] = index]
  /\ ikeys' = [ikeys EXCEPT ![c] = indexes]
  /\ UNCHANGED <<indexes, lastInit, initCalls>>
  /\ UNCHANGED exceptIdx

\* if (keys.includes(index)) return; await db.ft.create(...)
InitializeCreate(c) ==
  /\ ipc[c] = "listed"
  /\ IF KeysInclude(ikeys[c], itarget[c])
       THEN /\ ipc' = [ipc EXCEPT ![c] = "done"]
            /\ UNCHANGED indexes
       ELSE IF itarget[c] \in indexes
         THEN /\ ipc' = [ipc EXCEPT ![c] = "error"]
              /\ UNCHANGED indexes
         ELSE /\ ipc' = [ipc EXCEPT ![c] = "done"]
              /\ indexes' = indexes \cup {itarget[c]}
  /\ UNCHANGED <<itarget, ikeys, lastInit, initCalls>>
  /\ UNCHANGED exceptIdx

\* the awaited Initialize settles: the caller has its result or its error
InitializeReturn(c) ==
  /\ ipc[c] \in {"done", "error"}
  /\ ipc' = [ipc EXCEPT ![c] = "idle"]
  /\ lastInit' = itarget[c]
  /\ initCalls' = IF ipc[c] = "error" THEN 0
                  ELSE IF lastInit # itarget[c] \/ initCalls = 0 THEN 1
                  ELSE IF initCalls < MaxInitCalls THEN initCalls + 1
                  ELSE initCalls
  /\ ikeys' = [ikeys EXCEPT ![c] = {}]
  /\ UNCHANGED <<indexes, itarget>>
  /\ UNCHANGED exceptIdx

NoCallInFlight == \A c \in Callers : ipc[c] = "idle"

\* flush() of the tests and of clearMemory: drops the user's indexes and
\* the semantic index.
IndexMentions(index, userId) == index[2] = userId \/ index = SemanticIndex

FlushIndexes(userId) ==
  /\ indexes' = {n \in indexes : ~IndexMentions(n, userId)}
  /\ initCalls' = IF IndexMentions(lastInit, userId) THEN 0 ELSE initCalls
  /\ UNCHANGED <<ipc, itarget, ikeys, lastInit>>

\* the stored semantic entries within the distance threshold of a query
SemanticWithin(query) ==
  {key \in DOMAIN sem :
     Distance(sem[key].embedding, embed(query)) <= distanceThreshold}

\* C11: search(query, topK) returns exactly topK entries, nearest first,
\* when at least topK stored entries lie within the distance threshold of
\* the query.
C11_SearchHonoursTopK ==
  (/\ ret.op = "semantic.search"
   /\ "requested" \in DOMAIN ret
   /\ Cardinality(SemanticWithin(ret.query)) >= ret.requested)
    => /\ Len(ret.result) = ret.requested
       /\ \A i \in 1..(Len(ret.result) - 1) :
            ret.result[i].distance.v <= ret.result[i + 1].distance.v

\* C14: SemanticMemoryModel.update with an id that has no stored document
\* fails with an error and leaves the store as it was: no document is
\* created and no expiration is set.
C14_SemanticUpdateMissingFails ==
  [][(/\ ret'.op = "semantic.update"
      /\ SemanticKey(ret'.id) \notin DOMAIN sem)
       => (ret'.error /\ sem' = sem /\ expiry' = expiry)]_vars

\* an update of an id that is not stored has failed, next to a stored entry
C14_Witness ==
  /\ ret.op = "semantic.update"
  /\ ret.error
  /\ TtlPositive(ret.ttl)
  /\ SemanticKey(ret.id) \notin DOMAIN sem
  /\ DOMAIN sem # {}

\* C16: an entry's id is immutable: after any updates of an existing
\* semantic or legacy long-term entry the stored document still carries the
\* id of its key, so that a search returns that id and a further update
\* with the returned id finds the entry.
C16_IdImmutable ==
  /\ \A key \in DOMAIN sem : Field(sem[key], "id") = key[3]
  /\ \A userId \in Users :
       \A key \in DOMAIN lng[userId] : Field(lng[userId][key], "id") = key[3]
  /\ ret.op = "semantic.search" =>
       \A i \in 1..Len(ret.result) :
         Exists(sem, SemanticKey(ret.result[i].id))

(***************************************************************************)
(* Initialize called again and again, one call after the other.            *)
(***************************************************************************)
SeqInitializeList(c, index) == NoCallInFlight /\ InitializeList(c, index)

SeqFlush(userId) ==
  /\ NoCallInFlight
  /\ indexes # {}
  /\ FlushIndexes(userId)
  /\ UNCHANGED exceptIdx

NextInitSeq ==
  \/ \E c \in Callers, n \in InitTargets : SeqInitializeList(c, n)
  \/ \E c \in Callers : InitializeCreate(c)
  \/ \E c \in Callers : InitializeReturn(c)
  \/ \E u \in Users : SeqFlush(u)


SpecInitSeq == Init /\ [][NextInitSeq]_vars

(***************************************************************************)
(* Initialize called by several callers at once.                           *)
(***************************************************************************)
NextInitConc ==
  \/ \E c \in Callers, n \in InitTargets : InitializeList(c, n)
  \/ \E c \in Callers : InitializeCreate(c)
  \/ \E c \in Callers : InitializeReturn(c)

SpecInitConc == Init /\ [][NextInitConc]_vars

\* C1: Initialize called N > 1 times one after another for the same store
\* never raises an error, and after the calls the index of that store exists
\* (Redis holds at most one index per name).
C1_IdempotentInitialize ==
  /\ \A c \in Callers :
       /\ ipc[c] # "error"
       /\ ipc[c] = "done" => itarget[c] \in indexes
  /\ initCalls >= 1 => lastInit \in indexes

\* C1 witness: the same index has been initialized three times in a row and
\* exists.
C1_Witness ==
  /\ initCalls >= 3
  /\ lastInit = ChatIndex("u1")
  /\ lastInit \in indexes
  /\ NoCallInFlight

\* C2: when callers run Initialize for the same store concurrently, no
\* caller raises an error.
C2_ConcurrentInitializeNoError == \A c \in Callers : ipc[c] # "error"

(***************************************************************************)
(* EpisodicMemoryModel and the legacy LongTermMemoryModel of one user.     *)
(***************************************************************************)
EpisodicSearchResults(userId, query) ==
  {EpisodicSearchResult(reply, distanceThreshold) :
     reply \in KnnReplies(epi[userId], "embedding", embed(query), topK)}

\* the document add() writes (it has no id field)
EpisodicAddDoc(chatId, summary) ==
  [summary |-> summary, chatId |-> chatId, embedding |-> embed(summary)]

\* add(chatId, summary, ttl) run for the call named by the record called
\* (add itself, or the update that falls back to it)
EpisodicAddFor(userId, chatId, summary, ttl, called) ==
  /\ LET id == Uid(nextUid + 1)
         key == EpisodicKey(userId, id)
     IN /\ nextUid' = nextUid + 1
        /\ epi' = [epi EXCEPT
                     ![userId] = JsonSet(@, key, EpisodicAddDoc(chatId, summary))]
        /\ ExpireIfPositive(key, ttl)
        /\ ret' = [op |-> called.op, chatId |-> called.chatId,
                   summary |-> called.summary, ttl |-> ttl, id |-> id,
                   error |-> FALSE]
  /\ UNCHANGED <<sem, lng>>

EpisodicAdd(userId, chatId, summary, ttl) ==
  EpisodicAddFor(userId, chatId, summary, ttl,
                 [op |-> "episodic.add", chatId |-> chatId,
                  summary |-> summary])

\* FT.SEARCH @chatId:{"<chatId>"} LIMIT 0 1: the keys of the user's entries
\* whose chatId tag is the given one
EpisodicByChatId(userId, chatId) ==
  {key \in DOMAIN epi[userId] : epi[userId][key].chatId = chatId}

\* update(chatId, summary, ttl): dbModel.total === 0 hands over to
\* this.add(summary, chatId, ttl); otherwise JSON.SET of the first document
\* of the reply, with no expire
EpisodicUpdate(userId, chatId, summary, ttl) ==
  IF EpisodicByChatId(userId, chatId) = {}
    THEN EpisodicAddFor(userId, summary, chatId, ttl,
                        [op |-> "episodic.update", chatId |-> chatId,
                         summary |-> summary])
    ELSE /\ \E key \in EpisodicByChatId(userId, chatId) :
              /\ epi' = [epi EXCEPT
                           ![userId] = JsonSet(@, key,
                                               EpisodicAddDoc(chatId, summary))]
              /\ ret' = [op |-> "episodic.update", chatId |-> chatId,
                         summary |-> summary, ttl |-> ttl, id |-> key[3],
                         error |-> FALSE]
         /\ UNCHANGED <<nextUid, sem, lng, expiry>>

EpisodicSearch(userId, query) ==
  /\ \E result \in EpisodicSearchResults(userId, query) :
       ret' = [op |-> "episodic.search", query |-> query, result |-> result]
  /\ UNCHANGED <<nextUid, sem, epi, lng, expiry>>

LongSearchResults(userId, query) ==
  {LongSearchResult(reply, distanceThreshold) :
     reply \in KnnReplies(lng[userId], "embedding", embed(query), topK)}

\* the document add() and update() write
LongDoc(id, question, answer) ==
  [id |-> id, question |-> question, answer |-> answer,
   embedding |-> embed(question)]

\* update(id, question, answer, ttl): JSON.SET of the key, whether or not it
\* exists
LongWrite(userId, id, question, answer, ttl, op) ==
  LET key == LongKey(userId, id)
  IN /\ lng' = [lng EXCEPT
                  ![userId] = JsonSet(@, key, LongDoc(id, question, answer))]
     /\ ExpireIfPositive(key, ttl)
     /\ ret' = [op |-> op, question |-> question, answer |-> answer,
                ttl |-> ttl, id |-> id, error |-> FALSE]

LongUpdate(userId, id, question, answer, ttl) ==
  /\ LongWrite(userId, id, question, answer, ttl, "long.update")
  /\ UNCHANGED <<nextUid, sem, epi>>

\* (a search result never taken as the same question)
ExistingNever(existingResult) == FALSE

\* existingResult.length > 0 && existingResult[0].distance === 0
ExistingAtZero(existingResult) ==
  Len(existingResult) > 0 /\ existingResult[1].distance = Num(0)

LongAdd(userId, question, answer, ttl) ==
  \E existingResult \in LongSearchResults(userId, question) :
    IF ExistingAtZero(existingResult)
      THEN /\ LongWrite(userId, existingResult[1].id, question, answer, ttl,
                        "long.add")
           /\ UNCHANGED <<nextUid, sem, epi>>
      ELSE /\ nextUid' = nextUid + 1
           /\ LongWrite(userId, Uid(nextUid + 1), question, answer, ttl,
                        "long.add")
           /\ UNCHANGED <<sem, epi>>

LongSearch(userId, query) ==
  /\ \E result \in LongSearchResults(userId, query) :
       ret' = [op |-> "long.search", query |-> query, result |-> result]
  /\ UNCHANGED <<nextUid, sem, epi, lng, expiry>>

\* The two stores of one user, called one call after the other.
StoreUser == "u1"

StoreTexts == {"q0", "q1"}

StoreTtls == {NoTtl, Ttl(60)}

StoreIds == {Uid(n) : n \in 1..MaxStoreDocs}

NextStores ==
  \/ \E chatId \in ChatIds, summary \in StoreTexts, ttl \in StoreTtls :
       /\ nextUid < MaxStoreDocs
       /\ EpisodicAdd(StoreUser, chatId, summary, ttl)
       /\ UNCHANGED exceptMem
  \/ \E chatId \in ChatIds, summary \in StoreTexts, ttl \in StoreTtls :
       /\ nextUid < MaxStoreDocs
       /\ EpisodicUpdate(StoreUser, chatId, summary, ttl)
       /\ UNCHANGED exceptMem
  \/ \E query \in StoreTexts :
       EpisodicSearch(StoreUser, query) /\ UNCHANGED exceptMem
  \/ \E question \in StoreTexts, answer \in Answers, ttl \in StoreTtls :
       /\ nextUid < MaxStoreDocs
       /\ LongAdd(StoreUser, question, answer, ttl)
       /\ UNCHANGED exceptMem
  \/ \E id \in StoreIds, question \in StoreTexts, answer \in Answers,
        ttl \in StoreTtls :
       LongUpdate(StoreUser, id, question, answer, ttl) /\ UNCHANGED exceptMem
  \/ \E query \in StoreTexts :
       LongSearch(StoreUser, query) /\ UNCHANGED exceptMem

SpecStores == Init /\ [][NextStores]_vars

\* C13: after EpisodicMemoryModel.update(chatId, summary) the store holds an
\* entry with that chatId and that summary (the overwritten one, or a new
\* one when there was none), and a search for the summary returns an entry
\* with that chatId.
C13_EpisodicUpdateUpserts ==
  ret.op = "episodic.update" =>
    /\ \E key \in DOMAIN epi[StoreUser] :
         /\ epi[StoreUser][key].chatId = ret.chatId
         /\ epi[StoreUser][key].summary = ret.summary
    /\ \A result \in EpisodicSearchResults(StoreUser, ret.summary) :
         \E i \in 1..Len(result) : result[i].chatId = ret.chatId

\* C15: LongTermMemoryModel.update (legacy) with an id that has no stored
\* document fails and creates no document.
C15_LongUpdateMissingFails ==
  [][(/\ ret'.op = "long.update"
      /\ LongKey(StoreUser, ret'.id) \notin DOMAIN lng[StoreUser])
       => (ret'.error /\ lng' = lng)]_vars

\* C25: after EpisodicMemoryModel.update with ttl > 0 the entry it wrote
\* expires in ttl seconds, whether the update overwrote an entry or inserted
\* one.
C25_EpisodicUpdateSetsTtl ==
  (ret.op = "episodic.update" /\ ret.ttl.given /\ ret.ttl.v > 0) =>
    /\ EpisodicKey(StoreUser, ret.id) \in DOMAIN expiry
    /\ expiry[EpisodicKey(StoreUser, ret.id)] = ret.ttl.v

\* the documents of a store that hold a question
WithQuestion(docs, question) ==
  {key \in DOMAIN docs : docs[key].question = question}

\* C26: when LongTermMemoryModel.add has returned, its document being the
\* only one with its question, and add is called next with the same
\* question, the second add returns the id of the first, and the store still
\* has one document with the question: the one with that id, holding the
\* second answer. No other document changes.
C26_LongAddTwiceOneDocument ==
  [][(/\ ret.op = "long.add" /\ ret'.op = "long.add"
      /\ ret'.question = ret.question
      /\ WithQuestion(lng[StoreUser], ret.question)
           = {LongKey(StoreUser, ret.id)})
       => /\ ret'.id = ret.id
          /\ nextUid' = nextUid
          /\ DOMAIN lng'[StoreUser] = DOMAIN lng[StoreUser]
          /\ WithQuestion(lng'[StoreUser], ret.question)
               = {LongKey(StoreUser, ret.id)}
          /\ lng'[StoreUser][LongKey(StoreUser, ret.id)].id = ret.id
          /\ lng'[StoreUser][LongKey(StoreUser, ret.id)].answer = ret'.answer
          /\ \A key \in DOMAIN lng[StoreUser] \ {LongKey(StoreUser, ret.id)} :
               lng'[StoreUser][key] = lng[StoreUser][key]
    ]_vars

\* C26 witness: the one document ever added, for question q0 with answer a1
\* and a ttl of 60 seconds, holds answer a2 after an add of q0 with answer a2
\* and no ttl, which returned the first id.
C26_Witness ==
  /\ ret.op = "long.add" /\ ret.id = Uid(1) /\ ret.question = "q0"
  /\ ret.answer = "a2" /\ ret.ttl = NoTtl
  /\ nextUid = 1
  /\ DOMAIN lng[StoreUser] = {LongKey(StoreUser, Uid(1))}
  /\ lng[StoreUser][LongKey(StoreUser, Uid(1))].answer = "a2"
  /\ expiry = (LongKey(StoreUser, Uid(1)) :> 60)

(***************************************************************************)
(* The episodic store written by update alone, from the empty store.       *)
(***************************************************************************)
MaxEpisodicDocs == 3

NextEpisodic ==
  \/ \E chatId \in ChatIds, summary \in StoreTexts, ttl \in StoreTtls :
       /\ nextUid < MaxEpisodicDocs
       /\ EpisodicUpdate(StoreUser, chatId, summary, ttl)
       /\ UNCHANGED exceptMem
  \/ \E query \in StoreTexts :
       EpisodicSearch(StoreUser, query) /\ UNCHANGED exceptMem

SpecEpisodic == Init /\ [][NextEpisodic]_vars

\* the entries of a store that carry a chatId
WithChatId(docs, chatId) == {key \in DOMAIN docs : docs[key].chatId = chatId}

\* C27: in a store written by update alone, after each update no two entries
\* have the same chatId, the entries with the chatId of the update hold its
\* summary, and every other entry is as it was (so each holds the summary of
\* the last update for its chat).
C27_OneRowPerChat ==
  [][ret'.op = "episodic.update" =>
       /\ \A key \in DOMAIN epi'[StoreUser] :
            /\ Cardinality(WithChatId(epi'[StoreUser],
                                      epi'[StoreUser][key].chatId)) <= 1
            /\ IF epi'[StoreUser][key].chatId = ret'.chatId
                 THEN epi'[StoreUser][key].summary = ret'.summary
                 ELSE /\ key \in DOMAIN epi[StoreUser]
                      /\ epi'[StoreUser][key] = epi[StoreUser][key]
    ]_vars

(***************************************************************************)
(* The writes that take a ttl: add and update of the semantic store and of *)
(* the long-term store with questions and answers, add of the episodic     *)
(* store.                                                                  *)
(***************************************************************************)
MaxTtlDocs == 2

TtlWrites == TtlArgs \cup {Ttl(30)}

TtlIds == {Uid(n) : n \in 1..MaxTtlDocs}

NextTtl ==
  \/ \E ttl \in TtlWrites :
       /\ nextUid < MaxTtlDocs
       /\ SemanticAdd("q0", "a1", ttl)
       /\ UNCHANGED exceptMem
  \/ \E id \in TtlIds, ttl \in TtlWrites :
       SemanticUpdate(id, "q0", "a1", ttl) /\ UNCHANGED exceptMem
  \/ \E ttl \in TtlWrites :
       /\ nextUid < MaxTtlDocs
       /\ EpisodicAdd(StoreUser, "c1", "q1", ttl)
       /\ UNCHANGED exceptMem
  \/ \E ttl \in TtlWrites :
       /\ nextUid < MaxTtlDocs
       /\ LongAdd(StoreUser, "q0", "a1", ttl)
       /\ UNCHANGED exceptMem
  \/ \E id \in TtlIds, ttl \in TtlWrites :
       LongUpdate(StoreUser, id, "q0", "a1", ttl) /\ UNCHANGED exceptMem

SpecTtl == Init /\ [][NextTtl]_vars

\* the key a write of the call `called` wrote
WrittenKey(called) ==
  CASE called.op \in {"semantic.add", "semantic.update"} ->
         SemanticKey(called.id)
    [] called.op = "episodic.add" -> EpisodicKey(StoreUser, called.id)
    [] called.op \in {"long.add", "long.update"} ->
         LongKey(StoreUser, called.id)

TtlWriteOps ==
  {"semantic.add", "semantic.update", "episodic.add", "long.add",
   "long.update"}

\* C24: an add of the semantic, episodic or long-term store, or an update of
\* the semantic or long-term store, that wrote its key leaves the key with an
\* expiration of ttl seconds when ttl > 0; when ttl is absent, 0 or negative
\* the write sets none (the key has no expiration it did not have before).
\* No other key's expiration changes.
C24_TtlSetExactlyWhenPositive ==
  [][(ret'.op \in TtlWriteOps /\ ~ret'.error) =>
       LET key == WrittenKey(ret')
           ttl == ret'.ttl
       IN /\ \A k \in (DOMAIN expiry \cup DOMAIN expiry') \ {key} :
               k \in DOMAIN expiry /\ k \in DOMAIN expiry'
                 /\ expiry'[k] = expiry[k]
          /\ (ttl.given /\ ttl.v > 0) =>
               key \in DOMAIN expiry' /\ expiry'[key] = ttl.v
          /\ ~(ttl.given /\ ttl.v > 0) =>
               \/ key \notin DOMAIN expiry'
               \/ key \in DOMAIN expiry /\ expiry'[key] = expiry[key]
    ]_vars

\* C24 witness: a semantic entry added with ttl 60 has just been updated with
\* ttl 30 and expires in 30 seconds, while the long-term entry added with
\* ttl 0 has no expiration.
C24_Witness ==
  /\ ret.op = "semantic.update" /\ ~ret.error /\ ret.ttl = Ttl(30)
  /\ ret.id = Uid(1)
  /\ expiry = (SemanticKey(Uid(1)) :> 30)
  /\ DOMAIN lng[StoreUser] = {LongKey(StoreUser, Uid(2))}

(***************************************************************************)
(* WorkingMemoryModel.search(query): the three stores' searches, awaited   *)
(* together, their results tagged, concatenated and sorted by distance.    *)
(***************************************************************************)
\* { type, ...result }
Tag(type, result) == [type |-> type] @@ result

TagAll(type, results) == [i \in 1..Len(results) |-> Tag(type, results[i])]

\* the comparator (a, b) => a.distance - b.distance; a NaN difference counts
\* as 0
CompareDistance(a, b) ==
  IF isNaN(a.distance) \/ isNaN(b.distance) THEN 0
  ELSE a.distance.v - b.distance.v

\* (an array left as it was concatenated)
Unsorted(s) == s

\* Array.prototype.sort with that comparator: a stable sort
RECURSIVE InsertSorted(_, _)
InsertSorted(e, s) ==
  IF s = <<>> THEN <<e>>
  ELSE IF CompareDistance(e, Head(s)) < 0 THEN <<e>> \o s
  ELSE <<Head(s)>> \o InsertSorted(e, Tail(s))

RECURSIVE SortByDistance(_)
SortByDistance(s) ==
  IF s = <<>> THEN <<>>
  ELSE InsertSorted(s[Len(s)], SortByDistance(SubSeq(s, 1, Len(s) - 1)))

Merged(semanticResults, episodicMemoryResults, longTermResults) ==
  SortByDistance(TagAll("semantic", semanticResults)
                   \o TagAll("episodic", episodicMemoryResults)
                   \o TagAll("long-term", longTermResults))

\* a promise that has settled: rejected, or fulfilled with a value
Rejected == [status |-> "rejected"]

Fulfilled(value) == [status |-> "fulfilled", value |-> value]

\* what a store's search can settle to: one of its result lists, or a
\* rejection (embed or FT.SEARCH threw)
Settled(values) == {Fulfilled(value) : value \in values} \cup {Rejected}

\* (promises awaited one by one, a rejection taken as no hits)
AllSettled(outcomes) ==
  Fulfilled([i \in DOMAIN outcomes |->
               IF outcomes[i].status = "fulfilled" THEN outcomes[i].value
               ELSE <<>>])

\* Promise.all: rejected as soon as one of the promises is, fulfilled with
\* the values otherwise
PromiseAll(outcomes) ==
  IF \E i \in DOMAIN outcomes : outcomes[i].status = "rejected"
  THEN Rejected
  ELSE Fulfilled([i \in DOMAIN outcomes |-> outcomes[i].value])

WorkingSearch(userId, query) ==
  /\ \E semantic \in Settled(SemanticSearchResults(query)),
        episodic \in Settled(EpisodicSearchResults(userId, query)),
        longTerm \in Settled(LongSearchResults(userId, query)) :
       LET outcomes == <<semantic, episodic, longTerm>>
           all == PromiseAll(outcomes)
       IN  ret' = IF all.status = "rejected"
                  THEN [op |-> "working.search.rejected", query |-> query,
                        outcomes |-> outcomes]
                  ELSE [op |-> "working.search", query |-> query,
                        outcomes |-> outcomes,
                        semantic |-> all.value[1],
                        episodic |-> all.value[2],
                        longTerm |-> all.value[3],
                        result |-> Merged(all.value[1], all.value[2],
                                          all.value[3])]
  /\ UNCHANGED <<nextUid, sem, epi, lng, expiry>>

WorkingTexts == {"q0", "q1", "q2"}

WorkingQueries == {"q3", "q0", "q9"}

NextWorking ==
  \/ \E q \in WorkingTexts :
       nextUid < MaxDocs /\ SemanticAdd(q, "a1", NoTtl) /\ UNCHANGED exceptMem
  \/ \E q \in WorkingTexts :
       nextUid < MaxDocs /\ EpisodicAdd("u1", "c1", q, NoTtl)
         /\ UNCHANGED exceptMem
  \/ \E q \in WorkingTexts :
       nextUid < MaxDocs /\ LongAdd("u1", q, "a1", NoTtl) /\ UNCHANGED exceptMem
  \/ \E q \in WorkingQueries : WorkingSearch("u1", q) /\ UNCHANGED exceptMem

SpecWorking == Init /\ [][NextWorking]_vars

\* the entries of a merged list that carry one store's tag, in list order
OfType(merged, type) ==
  SelectSeqOf(merged, {e \in SeqRange(merged) : e.type = type})

\* C6: WorkingMemoryModel.search returns the hits of the three stores in one
\* list sorted by ascending distance; each store's hits are in it with that
\* store's tag, nothing else is, and nothing is there twice.
C6_WorkingMergeSorted ==
  ret.op = "working.search" =>
    /\ \A i, j \in 1..Len(ret.result) :
         i < j => ret.result[i].distance.v <= ret.result[j].distance.v
    /\ Len(ret.result)
         = Len(ret.semantic) + Len(ret.episodic) + Len(ret.longTerm)
    /\ OfType(ret.result, "semantic") = TagAll("semantic", ret.semantic)
    /\ OfType(ret.result, "episodic") = TagAll("episodic", ret.episodic)
    /\ OfType(ret.result, "long-term") = TagAll("long-term", ret.longTerm)

\* C6 witness: the stores answer at distances 0.3 (semantic), 0.1 (episodic)
\* and 0.2 (long-term) and the list is episodic, long-term, semantic.
C6_Witness ==
  /\ ret.op = "working.search"
  /\ Len(ret.result) = 3
  /\ ret.semantic[1].distance = Num(30)
  /\ ret.episodic[1].distance = Num(10)
  /\ ret.longTerm[1].distance = Num(20)
  /\ [i \in 1..3 |-> ret.result[i].type]
       = <<"episodic", "long-term", "semantic">>

\* C22: WorkingMemoryModel.search fails when one of the three store searches
\* fails, and a failed search returns no list of results, not even the hits
\* of the stores that answered; when all three answer it returns a list.
C22_SearchPropagatesErrors ==
  /\ ret.op = "working.search.rejected" =>
       /\ \E i \in 1..3 : ret.outcomes[i] = Rejected
       /\ "result" \notin DOMAIN ret
  /\ ret.op = "working.search" =>
       /\ \A i \in 1..3 : ret.outcomes[i].status = "fulfilled"
       /\ "result" \in DOMAIN ret

\* C22 witness: the semantic and the long-term store each answer with a hit,
\* the episodic search fails, and the search has failed.
C22_Witness ==
  /\ ret.op = "working.search.rejected"
  /\ ret.outcomes[1].status = "fulfilled" /\ Len(ret.outcomes[1].value) = 1
  /\ ret.outcomes[2] = Rejected
  /\ ret.outcomes[3].status = "fulfilled" /\ Len(ret.outcomes[3].value) = 1

(***************************************************************************)
(* The rich long-term store (long-term.ts): one index for all users, two   *)
(* vector fields per document (questionEmbedding, textEmbedding).          *)
(***************************************************************************)
\* distanceThreshold: 0.12, in hundredths
longTermDistanceThreshold == 12

LongTermKey(id) == <<"memory:longterm", "", id>>

\* what extract_memories is called with: the (question, text) of a memory
ExtractedTexts ==
  {[question |-> "q0", text |-> "q1"], [question |-> "q9", text |-> "q0"]}

ExtractedMemories ==
  [type : {"semantic", "episodic"}, requiresUserId : BOOLEAN,
   qt : ExtractedTexts]

\* hash({memoryType, sessionId, text, userId}): the hashed fields stand for
\* the digest
hash(memory) ==
  <<memory.memoryType, Field(memory, "sessionId"), memory.text,
    Field(memory, "userId")>>

\* the entry the tool callback makes of an extracted memory; userId and
\* sessionId are undefined (absent from the JSON) unless requiresUserId
ExtractedEntry(userId, sessionId, id, memory) ==
  LET owner == IF memory.requiresUserId
                 THEN [userId |-> userId, sessionId |-> sessionId]
                 ELSE [memoryType |-> memory.type]
      base == [id |-> id, memoryType |-> memory.type,
               question |-> memory.qt.question, text |-> memory.qt.text]
  IN (owner @@ base) @@ [memoryHash |-> hash(owner @@ base)]

\* memory.textEmbedding = embed(text); memory.questionEmbedding = embed(question)
WithEmbeddings(entry) ==
  entry @@ [textEmbedding |-> embed(entry.text),
            questionEmbedding |-> embed(entry.question)]

RECURSIVE MSet(_, _)
\* JSON.MSET of the entries, each under memory:longterm:<id>
MSet(docs, entries) ==
  IF entries = <<>> THEN docs
  ELSE MSet(JsonSet(docs, LongTermKey(Head(entries).id), Head(entries)),
            Tail(entries))

\* how a call of extract ends: "none" (it returns), "extract" (an
\* options.extract call throws, after the tool callback has accumulated the
\* memories of the calls before it) or "embed" (an options.embed call throws)
ExtractFailures == {"none", "extract", "embed"}

\* (a JSON.SET per memory as the tool callback receives it)
StoredAsAccumulated(docs, allMemories, failure) ==
  MSet(docs, [i \in 1..Len(allMemories) |->
                IF failure = "none" THEN WithEmbeddings(allMemories[i])
                ELSE allMemories[i]])

\* the documents after the call: the extraction loop, then the embeddings of
\* every memory (Promise.all), then one JSON.MSET; a throw on the way leaves
\* before the JSON.MSET, and no memory means no JSON.MSET
StoredByExtract(docs, allMemories, failure) ==
  IF failure # "none" \/ Len(allMemories) = 0 THEN docs
  ELSE MSet(docs, [i \in 1..Len(allMemories) |->
                     WithEmbeddings(allMemories[i])])

\* extract(messages, sessionId) of the model of userId, the LLM calling
\* extract_memories with `memories`
LongTermExtract(userId, sessionId, memories, failure) ==
  LET allMemories ==
        [i \in 1..Len(memories) |->
           ExtractedEntry(userId, sessionId, Uid(ltUid + i), memories[i])]
  IN /\ failure = "embed" => Len(memories) > 0
     /\ ltUid' = ltUid + Len(memories)
     /\ ltm' = StoredByExtract(ltm, allMemories, failure)
     /\ ltRet' = [op |-> "longterm.extract", userId |-> userId,
                  sessionId |-> sessionId, memories |-> memories,
                  error |-> failure # "none", failure |-> failure]

\* add(memory): the document gets the field `embedding`, which no index has
LongTermAdd(id, memory) ==
  /\ ltm' = JsonSet(ltm, LongTermKey(id),
                    memory @@ [embedding |-> embed(memory.text)])
  /\ ltRet' = [op |-> "longterm.add", id |-> id]
  /\ UNCHANGED ltUid

\* The query prefix: "@userId:<userId>" or "*"
FilterByUser(type, requiresUserId) == type = "semantic" /\ requiresUserId

MatchingDocs(docs, userId, type, requiresUserId) ==
  LET keys == IF FilterByUser(type, requiresUserId)
                THEN {key \in DOMAIN docs : Field(docs[key], "userId") = userId}
                ELSE DOMAIN docs
  IN [key \in keys |-> docs[key]]

\* if (results.total === 0)
RetryOnText(results, threshold) == Len(results) = 0

\* { ...doc.value, distance: parseFloat(doc.value.distance) }
LongTermEntry(doc) == [distance |-> parseFloat(doc.distance)] @@ doc.value

LongTermSearchResult(documents, threshold) ==
  FilterEntries([i \in 1..Len(documents) |-> LongTermEntry(documents[i])],
                threshold)

LongTermSearch(userId, query, type, requiresUserId) ==
  LET docs == MatchingDocs(ltm, userId, type, requiresUserId)
  IN /\ \E first \in KnnReplies(docs, "questionEmbedding", embed(query), topK) :
          \E second \in KnnReplies(docs, "textEmbedding", embed(query), topK) :
            LET results == IF RetryOnText(first, longTermDistanceThreshold)
                             THEN second ELSE first
            IN ltRet' = [op |-> "longterm.search", userId |-> userId,
                         query |-> query, type |-> type,
                         requiresUserId |-> requiresUserId,
                         retried |-> RetryOnText(first, longTermDistanceThreshold),
                         result |-> LongTermSearchResult(
                                      results, longTermDistanceThreshold)]
     /\ UNCHANGED <<ltm, ltUid>>

Sessions == {"s1"}

LongTermQueries == {"q0", "q1"}

RECURSIVE SeqsUpTo(_, _)
\* the sequences over S of length at most n
SeqsUpTo(S, n) ==
  IF n = 0 THEN {<<>>}
  ELSE LET shorter == SeqsUpTo(S, n - 1)
       IN shorter \cup {Append(s, x) : s \in shorter, x \in S}

NextLongTerm ==
  \/ \E userId \in Users, sessionId \in Sessions,
        memories \in SeqsUpTo(ExtractedMemories, MaxExtract) :
       /\ ltUid + Len(memories) <= MaxLtDocs
       /\ \E failure \in ExtractFailures :
            LongTermExtract(userId, sessionId, memories, failure)
       /\ UNCHANGED exceptLt
  \/ \E memory \in {ExtractedEntry("u1", "s1", "m1",
                                   [type |-> "semantic", requiresUserId |-> TRUE,
                                    qt |-> [question |-> "q9", text |-> "q0"]])} :
       /\ LongTermKey(memory.id) \notin DOMAIN ltm
       /\ LongTermAdd(memory.id, memory)
       /\ UNCHANGED exceptLt
  \/ \E userId \in Users, query \in LongTermQueries,
        type \in {"semantic", "episodic"}, requiresUserId \in BOOLEAN :
       /\ LongTermSearch(userId, query, type, requiresUserId)
       /\ UNCHANGED exceptLt

SpecLongTerm == Init /\ [][NextLongTerm]_vars

\* the documents a search may look at whose field lies within the threshold
\* of the query
WithinOn(docs, field, query, threshold) ==
  {key \in DOMAIN docs :
     /\ field \in DOMAIN docs[key]
     /\ Distance(docs[key][field], embed(query)) <= threshold}

\* C5: when no entry's questionEmbedding is within the threshold of the query
\* (also when the nearest one lies above it) and some entry's textEmbedding
\* is, search repeats the query on textEmbedding and returns such an entry.
C5_TextFallback ==
  ltRet.op = "longterm.search" =>
    LET docs == MatchingDocs(ltm, ltRet.userId, ltRet.type,
                             ltRet.requiresUserId)
    IN (/\ WithinOn(docs, "questionEmbedding", ltRet.query,
                    longTermDistanceThreshold) = {}
        /\ WithinOn(docs, "textEmbedding", ltRet.query,
                    longTermDistanceThreshold) # {})
         => /\ ltRet.retried
            /\ ltRet.result # <<>>

\* C17: a memory extracted with requiresUserId = true for one user is
\* private to that user: no search run for another user, whatever its type
\* and requiresUserId, returns it.
C17_PrivateMemoryStaysPrivate ==
  ltRet.op = "longterm.search" =>
    \A i \in 1..Len(ltRet.result) :
      Field(ltRet.result[i], "userId") \in {Undefined, ltRet.userId}

\* C18: after any extract calls no two stored long-term memories have the
\* same memoryHash.
C18_OneDocumentPerHash ==
  \A k1, k2 \in DOMAIN ltm :
    (/\ "memoryHash" \in DOMAIN ltm[k1]
     /\ "memoryHash" \in DOMAIN ltm[k2]
     /\ ltm[k1].memoryHash = ltm[k2].memoryHash) => k1 = k2

(***************************************************************************)
(* extract alone, with up to two memories accumulated by a call.           *)
(***************************************************************************)
MaxAccumulated == 2

MaxExtractDocs == 3

AccumulatedMemories ==
  {[type |-> "semantic", requiresUserId |-> TRUE,
    qt |-> [question |-> "q0", text |-> "q1"]],
   [type |-> "episodic", requiresUserId |-> FALSE,
    qt |-> [question |-> "q9", text |-> "q0"]]}

NextExtract ==
  \E userId \in Users, memories \in SeqsUpTo(AccumulatedMemories, MaxAccumulated),
     failure \in ExtractFailures :
    /\ ltUid + Len(memories) <= MaxExtractDocs
    /\ LongTermExtract(userId, "s1", memories, failure)
    /\ UNCHANGED exceptLt

SpecExtract == Init /\ [][NextExtract]_vars

\* C29: a call of extract that throws (an extraction call or an embedding
\* call failed) leaves the stored long-term memories as they were; a call
\* that returns has added one document per accumulated memory, each with its
\* question, its text, textEmbedding and questionEmbedding, all in the one
\* step of the bulk write, and has changed no other document.
C29_ExtractAllOrNothing ==
  [][ltRet'.op = "longterm.extract" =>
       LET n == Len(ltRet'.memories)
           written == {LongTermKey(Uid(ltUid + i)) : i \in 1..n}
       IN IF ltRet'.error
            THEN ltm' = ltm
            ELSE /\ DOMAIN ltm' = DOMAIN ltm \cup written
                 /\ \A key \in DOMAIN ltm \ written : ltm'[key] = ltm[key]
                 /\ \A i \in 1..n :
                      LET doc == ltm'[LongTermKey(Uid(ltUid + i))]
                      IN /\ {"textEmbedding", "questionEmbedding"}
                              \subseteq DOMAIN doc
                         /\ doc.text = ltRet'.memories[i].qt.text
                         /\ doc.question = ltRet'.memories[i].qt.question
                         /\ doc.textEmbedding = embed(doc.text)
                         /\ doc.questionEmbedding = embed(doc.question)
    ]_vars

\* C29 witness: a call that accumulated two memories and then failed on an
\* embedding stored nothing, after a call that stored its one memory.
C29_Witness ==
  /\ ltRet.op = "longterm.extract" /\ ltRet.failure = "embed"
  /\ Len(ltRet.memories) = 2
  /\ ltUid = 3
  /\ DOMAIN ltm = {LongTermKey(Uid(1))}
  /\ {"textEmbedding", "questionEmbedding"}
       \subseteq DOMAIN ltm[LongTermKey(Uid(1))]

(***************************************************************************)
(* ChatModel (chat.ts): one JSON document per chat, the transcript in its  *)
(* messages array.                                                         *)
(***************************************************************************)
ChatKey(userId, chatId) == <<"conversations", userId, chatId>>

\* null
Null == [null |-> TRUE]

Contents == {"q0", "q1"}

Roles == {"user", "assistant"}

\* createIfNotExists(): the document of a chat that has none
NewChatDoc(userId, chatId) ==
  [userId |-> userId, chatId |-> chatId, summary |-> "",
   lastSummarizedAt |-> clock, messages |-> <<>>]

\* ChatModel.New(db, userId): a chat with a fresh id and its document
ChatNew(userId) ==
  LET chatId == Uid(chatUid + 1)
      key == ChatKey(userId, chatId)
  IN /\ chatUid' = chatUid + 1
     /\ chats' = IF key \in DOMAIN chats THEN chats
                 ELSE JsonSet(chats, key, NewChatDoc(userId, chatId))
     /\ pushed' = JsonSet(pushed, key, <<>>)
     /\ chatRet' = [op |-> "new", key |-> key]
     /\ UNCHANGED clock

\* (an append that puts the value in front)
ArrPrepend(doc, value) == [doc EXCEPT !.messages = <<value>> \o @]

\* JSON.ARRAPPEND key $.messages value
ArrAppend(doc, value) == [doc EXCEPT !.messages = Append(@, value)]

\* (a JSON.CLEAR of the whole document: arrays emptied, numbers set to 0)
JsonClearRoot(doc) ==
  [doc EXCEPT !.messages = <<>>, !.lastSummarizedAt = 0]

\* JSON.CLEAR key $.messages
JsonClear(doc) == [doc EXCEPT !.messages = <<>>]

\* JSON.ARRLEN key $.messages: one length per match of the path
ArrLen(doc) == <<Len(doc.messages)>>

\* length(): lengths[0] ?? 0
Length(doc) == IF Len(ArrLen(doc)) = 0 THEN 0 ELSE ArrLen(doc)[1]

\* JSON.GET key $.messages: one value per match of the path
GetMessages(doc) == <<doc.messages>>

\* messages(): messages[0] of the reply
Messages(doc) == IF Len(GetMessages(doc)) = 0 THEN <<>> ELSE GetMessages(doc)[1]

\* JSON.GET key $.messages[i] (i from 0): the matches of the path
GetMessageAt(doc, i) ==
  IF i + 1 \in 1..Len(doc.messages) THEN <<doc.messages[i + 1]>> ELSE <<>>

\* top(): null for length 0, else last[0] of the reply for index length - 1
Top(doc) ==
  LET length == Length(doc)
  IN IF length = 0 THEN Null ELSE GetMessageAt(doc, length - 1)[1]

\* push(): the message made of { role, content }
NewMessage(role, content) ==
  [id |-> Uid(chatUid + 1), role |-> role, content |-> content,
   timestamp |-> clock]

\* (a push whose message does not reach the document)
ChatPushDropped(key, role, content) ==
  /\ key \in DOMAIN chats
  /\ chatUid' = chatUid + 1
  /\ chatRet' = [op |-> "push", key |-> key,
                 result |-> NewMessage(role, content)]
  /\ UNCHANGED <<chats, pushed, clock>>

\* push({role, content}): JSON.ARRAPPEND of the new message
ChatPush(key, role, content) ==
  LET message == NewMessage(role, content)
  IN /\ key \in DOMAIN chats
     /\ chatUid' = chatUid + 1
     /\ chats' = [chats EXCEPT ![key] = ArrAppend(@, message)]
     /\ pushed' = [pushed EXCEPT ![key] = Append(@, message)]
     /\ chatRet' = [op |-> "push", key |-> key, result |-> message]
     /\ UNCHANGED clock

ChatClear(key) ==
  /\ key \in DOMAIN chats
  /\ chats' = [chats EXCEPT ![key] = JsonClear(@)]
  /\ pushed' = [pushed EXCEPT ![key] = <<>>]
  /\ chatRet' = [op |-> "clear", key |-> key]
  /\ UNCHANGED <<chatUid, clock>>

ChatRead(key, op) ==
  /\ key \in DOMAIN chats
  /\ chatRet' = [op |-> op, key |-> key,
                 result |-> CASE op = "messages" -> Messages(chats[key])
                              [] op = "length" -> Length(chats[key])
                              [] OTHER -> Top(chats[key])]
  /\ UNCHANGED <<chats, chatUid, clock, pushed>>

ChatMessages(key) == ChatRead(key, "messages")

ChatLength(key) == ChatRead(key, "length")

ChatTop(key) == ChatRead(key, "top")

Tick ==
  /\ clock < MaxClock
  /\ clock' = clock + 1
  /\ UNCHANGED <<chats, chatUid, pushed, chatRet>>

NextChat ==
  \/ \E userId \in Users :
       chatUid < MaxChatUids /\ ChatNew(userId) /\ UNCHANGED exceptChat
  \/ \E key \in DOMAIN chats, role \in Roles, content \in Contents :
       chatUid < MaxChatUids /\ ChatPush(key, role, content)
         /\ UNCHANGED exceptChat
  \/ \E key \in DOMAIN chats : ChatClear(key) /\ UNCHANGED exceptChat
  \/ \E key \in DOMAIN chats : ChatMessages(key) /\ UNCHANGED exceptChat
  \/ \E key \in DOMAIN chats : ChatLength(key) /\ UNCHANGED exceptChat
  \/ \E key \in DOMAIN chats : ChatTop(key) /\ UNCHANGED exceptChat
  \/ Tick /\ UNCHANGED exceptChat

SpecChat == Init /\ [][NextChat]_vars

\* C7: calls on one chat made one after the other: messages() is the pushed
\* messages in push order, length() their number, top() the last of them
\* (null when there is none); clear() empties the array and pushes after
\* it append to the empty array.
C7_TranscriptAppendOnly ==
  /\ chatRet.op = "messages" => chatRet.result = pushed[chatRet.key]
  /\ chatRet.op = "length" => chatRet.result = Len(pushed[chatRet.key])
  /\ chatRet.op = "top" =>
       chatRet.result = IF pushed[chatRet.key] = <<>> THEN Null
                        ELSE pushed[chatRet.key][Len(pushed[chatRet.key])]
  /\ chatRet.op = "clear" => Length(chats[chatRet.key]) = 0
  /\ \A key \in DOMAIN chats : chats[key].messages = pushed[key]

\* C7 witness: two different messages were pushed to a fresh chat and
\* messages() returned the two, in push order.
C7_Witness ==
  /\ chatRet.op = "messages"
  /\ Len(chatRet.result) = 2
  /\ chatRet.result[1].content = "q0"
  /\ chatRet.result[2].content = "q1"
  /\ chatRet.result[1].id = Uid(2)
  /\ chatRet.result[2].id = Uid(3)

\* C23: clear() only empties the messages array of the chat document: the
\* document is still there, its userId, chat id, summary and
\* lastSummarizedAt are as they were, and no other chat document is changed.
C23_ClearOnlyEmptiesMessages ==
  [][chatRet'.op = "clear" =>
       /\ DOMAIN chats' = DOMAIN chats
       /\ chatRet'.key \in DOMAIN chats'
       /\ \A key \in DOMAIN chats \ {chatRet'.key} : chats'[key] = chats[key]
       /\ chats'[chatRet'.key]
            = [chats[chatRet'.key] EXCEPT !.messages = <<>>]
    ]_vars

\* C23 witness: a chat created at time 1 got two messages and was cleared.
C23_Witness ==
  /\ chatRet.op = "clear"
  /\ chatUid = 3
  /\ DOMAIN chats = {chatRet.key}
  /\ chats[chatRet.key].lastSummarizedAt = 1
  /\ chats[chatRet.key].messages = <<>>

(***************************************************************************)
(* ChatModel calls that overlap.  A call builds its argument, sends one    *)
(* command and awaits the reply; Redis runs the commands it is sent one at *)
(* a time, in the order they arrive, which need not be the order of the    *)
(* calls.                                                                  *)
(***************************************************************************)
\* (an ARRAPPEND that puts the value in place of the array)
ArrAppendOver(docs, key, value) ==
  [docs EXCEPT ![key].messages = <<value>>]

\* JSON.ARRAPPEND key $.messages value
ArrAppendKey(docs, key, value) == [docs EXCEPT ![key] = ArrAppend(@, value)]

\* (a merge that puts the patch in place of the document)
JsonReplace(doc, patch) == patch

\* JSON.MERGE key $ patch: the patch's fields over the document's
JsonMerge(doc, patch) == patch @@ doc

\* the callers other than c whose call on key is awaiting its reply
Overlapping(c, key) ==
  {d \in Callers \ {c} : cpc[d] = "awaiting" /\ cop[d].key = key}

\* the call of c is made: its command is on its way.  `overlapped` notes
\* for the call, and for the calls on the same chat that are awaiting their
\* reply, that they overlap.
Called(c, command) ==
  /\ cpc[c] = "idle"
  /\ cpc' = [cpc EXCEPT ![c] = "awaiting"]
  /\ cop' = [d \in Callers |->
               IF d = c
                 THEN command @@
                        [overlapped |-> Overlapping(c, command.key) # {}]
               ELSE IF d \in Overlapping(c, command.key)
                 THEN [cop[d] EXCEPT !.overlapped = TRUE]
               ELSE cop[d]]

\* push(newMessage) up to its await: the message with a fresh id and the
\* time of the call
PushCall(c, key, role, content) ==
  /\ key \in DOMAIN chats
  /\ Called(c, [op |-> "push", key |-> key,
                message |-> NewMessage(role, content)])
  /\ chatUid' = chatUid + 1
  /\ UNCHANGED <<chats, clock, pushed, chatRet>>

\* Redis runs the JSON.ARRAPPEND of the call and push returns the message
PushReturn(c) ==
  /\ cpc[c] = "awaiting"
  /\ cop[c].op = "push"
  /\ chats' = ArrAppendKey(chats, cop[c].key, cop[c].message)
  /\ pushed' = [pushed EXCEPT ![cop[c].key] = Append(@, cop[c].message)]
  /\ chatRet' = [op |-> "push", key |-> cop[c].key,
                 result |-> cop[c].message]
  /\ cpc' = [cpc EXCEPT ![c] = "idle"]
  /\ UNCHANGED <<chatUid, clock, cop>>

\* updateSummary(summary) up to its await: { summary, lastSummarizedAt:
\* Date.now() }
SummaryCall(c, key, summary) ==
  /\ key \in DOMAIN chats
  /\ Called(c, [op |-> "updateSummary", key |-> key,
                patch |-> [summary |-> summary, lastSummarizedAt |-> clock]])
  /\ UNCHANGED chatVars

\* Redis runs the JSON.MERGE of the call
SummaryReturn(c) ==
  /\ cpc[c] = "awaiting"
  /\ cop[c].op = "updateSummary"
  /\ chats' = [chats EXCEPT ![cop[c].key] = JsonMerge(@, cop[c].patch)]
  /\ chatRet' = [op |-> "updateSummary", key |-> cop[c].key]
  /\ cpc' = [cpc EXCEPT ![c] = "idle"]
  /\ UNCHANGED <<chatUid, clock, pushed, cop>>

Summaries == {"sum1"}

\* what the overlapping calls leave alone
exceptCc == <<idxVars, memVars, ltVars, ctlVars, hmVars, rcVars, wsVars>>

NextChatConc ==
  \/ /\ Cardinality(DOMAIN chats) < MaxConcChats
     /\ ChatNew("u1")
     /\ UNCHANGED <<exceptCc, ccVars>>
  \/ \E c \in Callers, key \in DOMAIN chats :
       /\ chatUid < MaxConcUids
       /\ PushCall(c, key, "user", "q0")
       /\ UNCHANGED exceptCc
  \/ \E c \in Callers : PushReturn(c) /\ UNCHANGED exceptCc
  \/ \E c \in Callers, key \in DOMAIN chats, summary \in Summaries :
       SummaryCall(c, key, summary) /\ UNCHANGED exceptCc
  \/ \E c \in Callers : SummaryReturn(c) /\ UNCHANGED exceptCc
  \/ Tick /\ UNCHANGED <<exceptCc, ccVars>>

SpecChatConc == Init /\ [][NextChatConc]_vars

\* how often a value occurs in a sequence
Occurrences(s, value) == Cardinality({i \in 1..Len(s) : s[i] = value})

\* C21: push calls on one chat that overlap, their commands run in any
\* order, lose no update: the transcript holds the message of every push
\* that returned exactly once, and each such push has made it one longer
\* (two pushes: two longer).
C21_OverlappingPushesKeepBoth ==
  \A key \in DOMAIN chats :
    /\ Length(chats[key]) = Len(pushed[key])
    /\ \A i \in 1..Len(pushed[key]) :
         Occurrences(Messages(chats[key]), pushed[key][i]) = 1

\* C21 witness: a called push, then b called push on the same chat, b's
\* append ran first, and both have returned: the transcript is b's message,
\* then a's.
C21_Witness ==
  /\ \A c \in Callers : cpc[c] = "idle" /\ cop[c].op = "push"
  /\ cop["a"].key = cop["b"].key
  /\ cop["a"].overlapped
  /\ cop["b"].overlapped
  /\ cop["a"].message.id = Uid(2)
  /\ cop["b"].message.id = Uid(3)
  /\ Messages(chats[cop["a"].key]) = <<cop["b"].message, cop["a"].message>>

\* C28: the JSON.MERGE of updateSummary(text) sets summary to text and
\* lastSummarizedAt to the time of the call and changes nothing else:
\* messages, userId and the chat id of the document are as they were, and
\* so is every other document; also when a push on the chat overlaps the
\* call.
C28_UpdateSummaryFrame ==
  [][\A c \in Callers :
       (/\ cpc[c] = "awaiting"
        /\ cop[c].op = "updateSummary"
        /\ cpc'[c] = "idle")
         => /\ DOMAIN chats' = DOMAIN chats
            /\ \A key \in DOMAIN chats \ {cop[c].key} :
                 chats'[key] = chats[key]
            /\ DOMAIN chats'[cop[c].key] = DOMAIN chats[cop[c].key]
            /\ chats'[cop[c].key].summary = cop[c].patch.summary
            /\ chats'[cop[c].key].lastSummarizedAt
                 = cop[c].patch.lastSummarizedAt
            /\ chats'[cop[c].key].messages = chats[cop[c].key].messages
            /\ chats'[cop[c].key].userId = chats[cop[c].key].userId
            /\ chats'[cop[c].key].chatId = chats[cop[c].key].chatId
    ]_vars

\* C28 witness: b's push was called while a's updateSummary awaited its
\* reply and ran before it; the chat has b's message and a's summary.
C28_Witness ==
  /\ \A c \in Callers : cpc[c] = "idle"
  /\ cop["a"].op = "updateSummary"
  /\ cop["b"].op = "push"
  /\ cop["a"].key = cop["b"].key
  /\ cop["a"].overlapped
  /\ chatRet.op = "updateSummary"
  /\ chats[cop["a"].key].summary = "sum1"
  /\ Messages(chats[cop["a"].key]) = <<cop["b"].message>>

(***************************************************************************)
(* The chat controller: processChat(send, {userId, chatId, message}) and   *)
(* ask(userId, chatId).  A call runs from await to await; what lies        *)
(* between two awaits is one step.  Redis commands succeed; the LLM call   *)
(* may fail.  While it runs, the LLM may call the memory tools.            *)
(***************************************************************************)
Pending == "..."

ErrorText == "An error occurred while processing your message."

\* chatId?: string, not given
NoChatId == ""

\* `bot-${randomUlid()}`
BotId(n) == "bot-" \o Uid(n)

Running(h) == pc[h] \notin {"idle", "done"}

NoTurnInFlight == \A h \in Handlers : ~Running(h)

\* ChatModel.FromChatId: the chat of chatId, or a new chat when no chatId
\* is given or no document exists for it
ChatExists(userId, chatId) ==
  chatId # NoChatId /\ ChatKey(userId, chatId) \in DOMAIN chats

FromChatIdKey(userId, chatId) ==
  IF ChatExists(userId, chatId) THEN ChatKey(userId, chatId)
  ELSE ChatKey(userId, Uid(chatUid + 1))

FromChatId(userId, chatId) ==
  IF ChatExists(userId, chatId) THEN UNCHANGED chatVars ELSE ChatNew(userId)

\* X.Initialize of the named stores, one call after the other
EnsureIndexes(names) ==
  /\ indexes' = indexes \cup names
  /\ UNCHANGED <<ipc, itarget, ikeys, lastInit, initCalls>>

\* the indexes WorkingMemoryModel.New initializes
WorkingIndexes(userId) ==
  {LongIndex(userId), EpisodicIndex(userId), SemanticIndex}

\* view.renderMessage(message)
Render(message) == message

\* view.renderMessage({...message, replaceId})
\* (a rendering that leaves replaceId out)
RenderPlain(message, replaceId) == message

RenderReplacing(message, replaceId) == [replaceId |-> replaceId] @@ message

Send(h, rendered) == sent' = [sent EXCEPT ![h] = @ \o rendered]

\* processChat up to its first await inside try: getChat, the placeholder
ProcessChat(h, userId, chatId, message) ==
  /\ ~Running(h)
  /\ FromChatId(userId, chatId)
  /\ EnsureIndexes({ChatIndex(userId)})
  /\ turn' = [turn EXCEPT ![h] =
       [userId |-> userId, chatKey |-> FromChatIdKey(userId, chatId),
        message |-> message, botId |-> BotId(turns + 1),
        response |-> [id |-> BotId(turns + 1), role |-> "assistant",
                      content |-> Pending, timestamp |-> clock],
        botResponseSent |-> FALSE, userMessage |-> Null,
        question |-> "", stored |-> {},
        asked |-> FALSE, llmBefore |-> llmCalls]]
  /\ sent' = [sent EXCEPT ![h] = <<>>]
  /\ pc' = [pc EXCEPT ![h] = "push_user"]
  /\ turns' = turns + 1
  /\ UNCHANGED <<memVars, ltVars, llmCalls>>

\* chat.push(user message); send(user message); send(placeholder)
PushUserMessage(h) ==
  /\ pc[h] = "push_user"
  /\ IF turn[h].chatKey \in DOMAIN chats
       THEN /\ ChatPush(turn[h].chatKey, "user", turn[h].message)
            /\ Send(h, <<Render(NewMessage("user", turn[h].message)),
                         Render(turn[h].response)>>)
            /\ turn' = [turn EXCEPT
                          ![h].botResponseSent = TRUE,
                          ![h].userMessage =
                            NewMessage("user", turn[h].message)]
            /\ pc' = [pc EXCEPT ![h] = "ask"]
       ELSE /\ pc' = [pc EXCEPT ![h] = "catch"]
            /\ UNCHANGED <<chatVars, turn, sent>>
  /\ UNCHANGED <<idxVars, memVars, ltVars, turns, llmCalls>>

\* the userId and chatId of a chat key
KeyUser(key) == key[2]

KeyChatId(key) == key[3]

\* ask: getChat, getWorkingMemory, chat.messages(), the last message
AskQuestion(h) ==
  LET userId == turn[h].userId
      chatId == KeyChatId(turn[h].chatKey)
      messages == IF ChatExists(userId, chatId)
                    THEN Messages(chats[turn[h].chatKey]) ELSE <<>>
  IN /\ pc[h] = "ask"
     /\ FromChatId(userId, chatId)
     /\ EnsureIndexes({ChatIndex(userId)} \cup WorkingIndexes(userId))
     /\ IF messages = <<>>
          THEN /\ pc' = [pc EXCEPT ![h] = "catch"]
               /\ UNCHANGED turn
          ELSE /\ pc' = [pc EXCEPT ![h] = "search"]
               /\ turn' = [turn EXCEPT
                             ![h].question = messages[Len(messages)].content]
     /\ UNCHANGED <<memVars, ltVars, sent, turns, llmCalls>>

\* (a lookup that never finds an entry)
NeverFound(existingResult) == FALSE

\* if (existingResult.length > 0)
Found(existingResult) == Len(existingResult) > 0

\* the answers of the semantic entries stored for a question
StoredAnswers(question) ==
  {sem[key].answer : key \in SemanticKeysOf(sem, question)}

\* ask: workingMemory.searchSemanticMemory(question); return the answer of
\* the first entry, or go on to answerPrompt(messages, tools)
AskSearch(h) ==
  /\ pc[h] = "search"
  /\ \E existingResult \in SemanticSearchResults(turn[h].question) :
       IF Found(existingResult)
         THEN /\ turn' = [turn EXCEPT
                    ![h].response.content = existingResult[1].answer,
                    ![h].stored = StoredAnswers(turn[h].question)]
              /\ pc' = [pc EXCEPT ![h] = "push_response"]
              /\ UNCHANGED llmCalls
         ELSE /\ turn' = [turn EXCEPT
                    ![h].asked = TRUE,
                    ![h].stored = StoredAnswers(turn[h].question)]
              /\ pc' = [pc EXCEPT ![h] = "llm"]
              /\ llmCalls' = llmCalls + 1
  /\ UNCHANGED <<idxVars, memVars, ltVars, chatVars, sent, turns>>

\* the LLM calls add_memory or update_memory
LlmTool(h) ==
  /\ pc[h] = "llm"
  /\ \/ \E question \in Contents, answer \in Answers, ttl \in {NoTtl, Ttl(60)} :
          nextUid < MaxToolDocs /\ SemanticAdd(question, answer, ttl)
     \/ \E question \in Contents :
          nextUid < MaxToolDocs
            /\ LongAdd(turn[h].userId, question, "a1", NoTtl)
     \/ \E id \in {Uid(n) : n \in 1..nextUid}, question \in Contents,
           answer \in Answers :
          SemanticUpdate(id, question, answer, NoTtl)
  /\ UNCHANGED <<idxVars, ltVars, chatVars, ctlVars>>

\* answerPrompt returns the LLM's text
LlmAnswer(h, content) ==
  /\ pc[h] = "llm"
  /\ turn' = [turn EXCEPT ![h].response.content = content]
  /\ pc' = [pc EXCEPT ![h] = "push_response"]
  /\ UNCHANGED <<idxVars, memVars, ltVars, chatVars, sent, turns, llmCalls>>

\* answerPrompt throws
LlmFail(h) ==
  /\ pc[h] = "llm"
  /\ pc' = [pc EXCEPT ![h] = "catch"]
  /\ UNCHANGED <<idxVars, memVars, ltVars, chatVars, turn, sent, turns,
                 llmCalls>>

\* response = await chat.push(response); send({...response, replaceId: botId})
PushResponse(h) ==
  /\ pc[h] = "push_response"
  /\ IF turn[h].chatKey \in DOMAIN chats
       THEN /\ ChatPush(turn[h].chatKey, turn[h].response.role,
                        turn[h].response.content)
            /\ turn' = [turn EXCEPT ![h].response =
                          NewMessage(turn[h].response.role,
                                     turn[h].response.content)]
            /\ Send(h, <<RenderReplacing(
                           NewMessage(turn[h].response.role,
                                      turn[h].response.content),
                           turn[h].botId)>>)
            /\ pc' = [pc EXCEPT ![h] = "done"]
       ELSE /\ pc' = [pc EXCEPT ![h] = "catch"]
            /\ UNCHANGED <<chatVars, turn, sent>>
  /\ UNCHANGED <<idxVars, memVars, ltVars, turns, llmCalls>>

\* catch (error): the error message, in place of the placeholder if that
\* was sent
ErrorMessage(botId) ==
  [id |-> botId, content |-> ErrorText, role |-> "assistant",
   timestamp |-> clock]

Catch(h) ==
  /\ pc[h] = "catch"
  /\ IF turn[h].botResponseSent
       THEN Send(h, <<RenderReplacing(ErrorMessage(turn[h].botId),
                                      turn[h].botId)>>)
       ELSE Send(h, <<Render(ErrorMessage(turn[h].botId))>>)
  /\ pc' = [pc EXCEPT ![h] = "done"]
  /\ UNCHANGED <<idxVars, memVars, ltVars, chatVars, turn, turns, llmCalls>>

\* clearChat(send, userId, chatId): getChat, chat.clear()
ClearChat(userId, chatId) ==
  /\ IF ChatExists(userId, chatId)
       THEN ChatClear(ChatKey(userId, chatId))
       ELSE ChatNew(userId)
  /\ EnsureIndexes({ChatIndex(userId)})
  /\ UNCHANGED <<memVars, ltVars, ctlVars>>

\* clearMemory(send, userId): flush(userId) deletes the keys users:* and
\* semantic-memory* and drops the indexes that mention userId or
\* semantic-memory
ClearMemory(userId) ==
  /\ chats' = NoDocs
  /\ pushed' = NoDocs
  /\ chatRet' = [op |-> "clearMemory", userId |-> userId]
  /\ sem' = NoDocs
  /\ epi' = [u \in Users |-> NoDocs]
  /\ lng' = [u \in Users |-> NoDocs]
  /\ expiry' = NoDocs
  /\ ret' = NoRet
  /\ FlushIndexes(userId)
  /\ UNCHANGED <<nextUid, chatUid, clock, ltVars, ctlVars>>

\* the chat ids a caller may name: none, or the id of some user's chat
KnownChatIds == {NoChatId} \cup {KeyChatId(key) : key \in DOMAIN chats}

\* the handler of calls made one after the other
SeqHandlers == {"h1"}

NextCtl ==
  \/ \E h \in SeqHandlers, userId \in Users, chatId \in KnownChatIds,
        message \in Contents :
       /\ NoTurnInFlight
       /\ turns < MaxTurns
       /\ ProcessChat(h, userId, chatId, message)
       /\ UNCHANGED <<hmVars, ccVars, rcVars, wsVars>>
  \/ \E h \in SeqHandlers : PushUserMessage(h) /\ UNCHANGED <<hmVars, ccVars, rcVars, wsVars>>
  \/ \E h \in SeqHandlers : AskQuestion(h) /\ UNCHANGED <<hmVars, ccVars, rcVars, wsVars>>
  \/ \E h \in SeqHandlers : AskSearch(h) /\ UNCHANGED <<hmVars, ccVars, rcVars, wsVars>>
  \/ \E h \in SeqHandlers : LlmTool(h) /\ UNCHANGED <<hmVars, ccVars, rcVars, wsVars>>
  \/ \E h \in SeqHandlers, content \in Answers :
       LlmAnswer(h, content) /\ UNCHANGED <<hmVars, ccVars, rcVars, wsVars>>
  \/ \E h \in SeqHandlers : LlmFail(h) /\ UNCHANGED <<hmVars, ccVars, rcVars, wsVars>>
  \/ \E h \in SeqHandlers : PushResponse(h) /\ UNCHANGED <<hmVars, ccVars, rcVars, wsVars>>
  \/ \E h \in SeqHandlers : Catch(h) /\ UNCHANGED <<hmVars, ccVars, rcVars, wsVars>>
  \/ \E userId \in Users, chatId \in KnownChatIds :
       /\ NoTurnInFlight
       /\ ChatExists(userId, chatId)
       /\ ClearChat(userId, chatId)
       /\ UNCHANGED <<hmVars, ccVars, rcVars, wsVars>>
  \/ \E userId \in Users :
       /\ NoTurnInFlight /\ chats # NoDocs /\ ClearMemory(userId)
       /\ UNCHANGED <<hmVars, ccVars, rcVars, wsVars>>
  \/ \E key \in DOMAIN expiry :
       SemanticExpired(key) /\ UNCHANGED exceptMem

SpecCtl == Init /\ [][NextCtl]_vars

C8_StoredAnswerNoLlmCall ==
  \A h \in Handlers :
    (turn[h] # NoTurn /\ turn[h].stored # {}) =>
      /\ ~turn[h].asked
      /\ llmCalls = turn[h].llmBefore
      /\ pc[h] \in {"push_response", "done"}
      /\ turn[h].response.content \in turn[h].stored
      /\ pc[h] = "done" =>
           /\ Len(sent[h]) = 3
           /\ sent[h][3].replaceId = turn[h].botId
           /\ sent[h][3].content \in turn[h].stored
           /\ sent[h][3].id = turn[h].response.id

\* C8 witness: the second turn, in another chat than the first, has
\* answered "q0" with the answer "a2" stored by the first turn's add_memory,
\* and the only LLM call is the first turn's.
C8_Witness ==
  /\ pc["h1"] = "done"
  /\ turns = 2
  /\ turn["h1"].question = "q0"
  /\ turn["h1"].stored = {"a2"}
  /\ Len(sent["h1"]) = 3
  /\ sent["h1"][3].content = "a2"
  /\ Cardinality(DOMAIN chats) = 2
  /\ llmCalls = 1

(***************************************************************************)
(* processChat with every awaited step inside try able to throw, and with  *)
(* the extraction of the later processChat, which awaits                   *)
(* workingMemory.extract([response], sessionId) between pushing the answer *)
(* and sending the replacement.                                            *)
(***************************************************************************)
\* response = await chat.push(response)
PushAnswer(h) ==
  /\ pc[h] = "push_response"
  /\ IF turn[h].chatKey \in DOMAIN chats
       THEN /\ ChatPush(turn[h].chatKey, turn[h].response.role,
                        turn[h].response.content)
            /\ turn' = [turn EXCEPT ![h].response =
                          NewMessage(turn[h].response.role,
                                     turn[h].response.content)]
            /\ pc' = [pc EXCEPT ![h] = "extract"]
       ELSE /\ pc' = [pc EXCEPT ![h] = "catch"]
            /\ UNCHANGED <<chatVars, turn>>
  /\ UNCHANGED <<idxVars, memVars, ltVars, sent, turns, llmCalls>>

\* what the LLM may call extract_memories with for the answer
TurnMemories ==
  {[type |-> "semantic", requiresUserId |-> TRUE,
    qt |-> [question |-> "q0", text |-> "q1"]]}

\* await workingMemory.extract([response], sessionId);
\* send({...response, replaceId: botId})
Extract(h) ==
  /\ pc[h] = "extract"
  /\ \E memories \in SeqsUpTo(TurnMemories, MaxExtract) :
       /\ ltUid + Len(memories) <= MaxLtDocs
       /\ LongTermExtract(turn[h].userId, KeyChatId(turn[h].chatKey),
                          memories, "none")
  /\ Send(h, <<RenderReplacing(turn[h].response, turn[h].botId)>>)
  /\ pc' = [pc EXCEPT ![h] = "done"]
  /\ UNCHANGED <<idxVars, memVars, chatVars, turn, turns, llmCalls>>

\* the await of the step the call is at rejects: control goes to catch
StepFails(h) ==
  /\ pc[h] \in {"push_user", "ask", "search", "push_response", "extract"}
  /\ pc' = [pc EXCEPT ![h] = "catch"]
  /\ UNCHANGED <<idxVars, memVars, ltVars, chatVars, turn, sent, turns,
                 llmCalls>>

NextTurn ==
  \/ \E h \in SeqHandlers, userId \in Users, chatId \in KnownChatIds,
        message \in Contents :
       /\ NoTurnInFlight
       /\ turns < MaxTurns
       /\ ProcessChat(h, userId, chatId, message)
       /\ UNCHANGED <<hmVars, ccVars, rcVars, wsVars>>
  \/ \E h \in SeqHandlers : PushUserMessage(h) /\ UNCHANGED <<hmVars, ccVars, rcVars, wsVars>>
  \/ \E h \in SeqHandlers : AskQuestion(h) /\ UNCHANGED <<hmVars, ccVars, rcVars, wsVars>>
  \/ \E h \in SeqHandlers : AskSearch(h) /\ UNCHANGED <<hmVars, ccVars, rcVars, wsVars>>
  \/ \E h \in SeqHandlers : LlmTool(h) /\ UNCHANGED <<hmVars, ccVars, rcVars, wsVars>>
  \/ \E h \in SeqHandlers, content \in Answers :
       LlmAnswer(h, content) /\ UNCHANGED <<hmVars, ccVars, rcVars, wsVars>>
  \/ \E h \in SeqHandlers : LlmFail(h) /\ UNCHANGED <<hmVars, ccVars, rcVars, wsVars>>
  \/ \E h \in SeqHandlers : PushAnswer(h) /\ UNCHANGED <<hmVars, ccVars, rcVars, wsVars>>
  \/ \E h \in SeqHandlers : Extract(h) /\ UNCHANGED <<hmVars, ccVars, rcVars, wsVars>>
  \/ \E h \in SeqHandlers : StepFails(h) /\ UNCHANGED <<hmVars, ccVars, rcVars, wsVars>>
  \/ \E h \in SeqHandlers : Catch(h) /\ UNCHANGED <<hmVars, ccVars, rcVars, wsVars>>
  \/ \E userId \in Users, chatId \in KnownChatIds :
       /\ NoTurnInFlight
       /\ ChatExists(userId, chatId)
       /\ ClearChat(userId, chatId)
       /\ UNCHANGED <<hmVars, ccVars, rcVars, wsVars>>

SpecTurn == Init /\ [][NextTurn]_vars

\* the transcript of the call's chat holds the user message the call pushed
UserMessageStored(h) ==
  /\ turn[h].chatKey \in DOMAIN chats
  /\ \E i \in 1..Len(chats[turn[h].chatKey].messages) :
       chats[turn[h].chatKey].messages[i] = turn[h].userMessage

\* C19: processChat appends the user's message to the transcript before a
\* memory search or an LLM call is started, and whichever later step fails
\* (search, LLM call, pushing the answer, extraction), the transcript still
\* holds that message when the call returns.
C19_UserMessageFirstAndKept ==
  [][\A h \in SeqHandlers :
       /\ pc'[h] = "push_user" =>
            /\ llmCalls' = turn'[h].llmBefore
            /\ ~turn'[h].asked
            /\ turn'[h].stored = {}
            /\ turn'[h].question = ""
       /\ pc'[h] \in {"ask", "search", "llm", "push_response", "extract"} =>
            UserMessageStored(h)'
       /\ (Running(h) /\ turn[h].userMessage # Null) => UserMessageStored(h)'
    ]_vars

\* a call whose extraction failed, after the LLM was asked, has returned
\* and the transcript holds its user message in front of the answer
C19_Witness ==
  /\ pc["h1"] = "done"
  /\ turn["h1"].asked
  /\ Len(sent["h1"]) = 3
  /\ sent["h1"][3].content = ErrorText
  /\ chats[turn["h1"].chatKey].messages
       = <<turn["h1"].userMessage, turn["h1"].response>>

(***************************************************************************)
(* ChatModel.AllChats(db, userId): FT.SEARCH "*" of the user's chat index, *)
(* with no LIMIT, then top() of each chat of the reply.  The entries are   *)
(* kept as a set: the order of the reply is Redis's.                       *)
(***************************************************************************)
\* FT.SEARCH returns the first 10 matches when the query names no LIMIT
searchLimit == 10

\* the chat documents under the prefix of the user's index
ChatKeysOf(userId) == {key \in DOMAIN chats : KeyUser(key) = userId}

\* all.documents: all.total counts every match, the documents are
\* searchLimit of them at most
SearchAllReplies(userId) ==
  IF Cardinality(ChatKeysOf(userId)) <= searchLimit
  THEN {ChatKeysOf(userId)}
  ELSE {docs \in SUBSET ChatKeysOf(userId) :
          Cardinality(docs) = searchLimit}

\* { ...dbChat, messages } with messages the top message, if there is one
AllChatsEntry(key) ==
  [userId |-> chats[key].userId, chatId |-> chats[key].chatId,
   summary |-> chats[key].summary,
   lastSummarizedAt |-> chats[key].lastSummarizedAt,
   messages |-> IF Top(chats[key]) = Null THEN <<>>
                ELSE <<Top(chats[key])>>]

AllChats(userId) ==
  /\ \E docs \in SearchAllReplies(userId) :
       chatRet' = [op |-> "allChats", userId |-> userId,
                   result |-> {AllChatsEntry(key) : key \in docs}]
  /\ EnsureIndexes({ChatIndex(userId)})
  /\ UNCHANGED <<chats, chatUid, clock, pushed>>

\* the messages pushed so far: the ids handed out that are not chat ids
PushedCount == chatUid - Cardinality(DOMAIN chats)

NextAllChats ==
  \/ \E userId \in Users :
       /\ Cardinality(ChatKeysOf(userId)) <
            (IF userId = "u1" THEN MaxAllChats ELSE MaxOtherChats)
       /\ ChatNew(userId)
       /\ UNCHANGED exceptChat
  \/ \E key \in DOMAIN chats, role \in Roles :
       /\ PushedCount < MaxPreviews
       /\ ChatPush(key, role, "q0")
       /\ UNCHANGED exceptChat
  \/ \E userId \in Users :
       AllChats(userId) /\ UNCHANGED <<memVars, ltVars, ctlVars, hmVars, ccVars, rcVars, wsVars>>

SpecAllChats == Init /\ [][NextAllChats]_vars

\* C12: AllChats(userId) returns exactly one entry for every chat document
\* of the user, for any number of chats, and each entry's messages is the
\* chat's last message alone, or empty when the chat has no messages.
C12_AllChatsEveryChat ==
  chatRet.op = "allChats" =>
    /\ {entry.chatId : entry \in chatRet.result} =
         {KeyChatId(key) : key \in ChatKeysOf(chatRet.userId)}
    /\ Cardinality(chatRet.result) =
         Cardinality(ChatKeysOf(chatRet.userId))
    /\ \A entry \in chatRet.result :
         LET all == chats[ChatKey(chatRet.userId, entry.chatId)].messages
         IN entry.messages =
              IF all = <<>> THEN <<>> ELSE <<all[Len(all)]>>

(***************************************************************************)
(* The prompt-cache controller (controller.js): handleMessage(send,        *)
(* sessionId, prompt, noCache) with findSimilarPrompt and askLlm, over the *)
(* store's chat stream, message keys and cache of answered prompts.  A     *)
(* call runs from await to await.  Any awaited call inside its try block   *)
(* may throw: a command of the store, or answerPrompt.                     *)
(***************************************************************************)
\* GLOBAL_MEMORY_INDEX
GlobalMemoryIndex == <<"idx:global_memory", "", "">>

\* `${GLOBAL_MEMORY_PREFIX}${id}`
GlobalMemoryKey(id) == <<"global_memory", "", id>>

\* `${MESSAGE_PREFIX}${sessionId}:${id}`
MessageKey(sessionId, id) == <<"message", sessionId, id>>

Prompts == {"q0", "q1"}

\* the texts an answer of the LLM may be
LlmResponses == {"r1", "r2", Pending}

\* the tool response answerPrompt returns (promptResponseSchema)
LlmResults ==
  [response : LlmResponses, canCacheResponse : BOOLEAN,
   inferredPrompt : Prompts, recommendedTtl : {-1, 60}]

\* no tool response yet
NoResult == [response |-> ""]

\* `chat-user-${randomBytes(20)}`, `chat-bot-${randomBytes(20)}`
ChatUserId(n) == "chat-user-" \o Uid(n)

ChatBotId(n) == "chat-bot-" \o Uid(n)

\* the entry id XADD key * returns
StreamId(n) == "entry-" \o Uid(n)

\* isLocal.toString() and isLocal === "true"
BoolStr(b) == IF b THEN "true" ELSE "false"

StrBool(str) == str = "true"

HmRunning(h) == hpc[h] \notin {"idle", "done"}

NoCallRunning == \A h \in Handlers : ~HmRunning(h)

\* view.renderMessage({replaceId, id, message, isLocal, showRefresh = true}):
\* the values the template is given
renderMessage(message) ==
  [replaceId |-> Field(message, "replaceId"), id |-> message.id,
   message |-> message.message, isLocal |-> message.isLocal,
   showRefresh |-> IF "showRefresh" \in DOMAIN message
                     THEN message.showRefresh ELSE TRUE]

\* view.clearMessages()
clearMessagesView == [cleared |-> TRUE]

\* createIndexIfNotExists(): the global index is there afterwards
createIndexIfNotExists == EnsureIndexes({GlobalMemoryIndex})

\* addChatMessage(sessionId, {id, message, isLocal}): SET of the message
\* key, XADD to the session's stream; returns the entry id
AddChatMessage(sessionId, message) ==
  LET messageKey == MessageKey(sessionId, message.id)
  IN /\ msgs' = JsonSet(msgs, messageKey, message.message)
     /\ streams' = [streams EXCEPT ![sessionId] =
          Append(@, [id |-> StreamId(streamIds + 1),
                     timestamp |-> NumStr(clock),
                     messageKey |-> messageKey,
                     isLocal |-> BoolStr(message.isLocal)])]
     /\ streamIds' = streamIds + 1

\* getChatMessages(sessionId): XRANGE - +, GET of each message key
getChatMessages(sessionId) ==
  [i \in 1..Len(streams[sessionId]) |->
     LET entry == streams[sessionId][i]
     IN [entryId |-> entry.id,
         timestamp |-> parseFloat(entry.timestamp),
         message |-> IF entry.messageKey \in DOMAIN msgs
                       THEN msgs[entry.messageKey] ELSE "",
         messageKey |-> entry.messageKey,
         isLocal |-> StrBool(entry.isLocal)]]

\* askLlm: the history handed to answerPrompt
MessageHistory(sessionId) ==
  [i \in 1..Len(streams[sessionId]) |->
     LET message == getChatMessages(sessionId)[i]
     IN [role |-> IF message.isLocal THEN "user" ELSE "assistant",
         content |-> message.message]]

\* KNN 3 of vss
vssK == 3

\* vss(prompt): the replies FT.SEARCH may give, nearest first
vss(prompt) == KnnReplies(cache, "embedding", embed(prompt), vssK)

\* (a lookup that never finds a cached answer)
NeverHit(reply) == FALSE

\* findSimilarPrompt: if (total > 0)
CacheHit(reply) == Len(reply) > 0

\* findSimilarPrompt: documents[0].value
findSimilarPrompt(reply) == reply[1].value

\* the responses findSimilarPrompt may return for a prompt
CachedResponses(prompt) ==
  {findSimilarPrompt(reply).response :
     reply \in {r \in vss(prompt) : CacheHit(r)}}

\* cachePrompt(id, {originalPrompt, inferredPrompt, response,
\* recommendedTtl}): the document
CacheDoc(chat) ==
  [originalPrompt |-> chat.originalPrompt,
   embedding |-> embed(chat.inferredPrompt),
   inferredPrompt |-> chat.inferredPrompt,
   recommendedTtl |-> chat.recommendedTtl,
   response |-> chat.response]

\* cachePrompt: if (recommendedTtl > 0) redis.expire(fullId, recommendedTtl)
HasTtl(doc) == doc.recommendedTtl > 0

cachePrompt(id, chat) ==
  cache' = JsonSet(cache, GlobalMemoryKey(id), CacheDoc(chat))

\* a call that has returned, as the last of the two that are remembered
Returned(h, locals, sends, outcome) ==
  LET rec == [call |-> locals, sent |-> sends, outcome |-> outcome,
              lost |-> lost]
  IN hist' = IF Len(hist) < 2 THEN Append(hist, rec) ELSE <<hist[2], rec>>

\* handleMessage up to its first await inside try
HandleMessage(h, sessionId, prompt, noCache) ==
  LET botId == ChatBotId(calls + 1)
  IN /\ ~HmRunning(h)
     /\ createIndexIfNotExists
     /\ call' = [call EXCEPT ![h] =
          [sessionId |-> sessionId, prompt |-> prompt, noCache |-> noCache,
           userMessage |-> [id |-> ChatUserId(calls + 1),
                            message |-> prompt, isLocal |-> TRUE],
           botId |-> botId,
           response |-> [id |-> botId, message |-> Pending,
                         isLocal |-> FALSE],
           botResponseSent |-> FALSE, result |-> NoResult,
           source |-> "none", candidates |-> {}, cached |-> FALSE,
           history |-> <<>>, lostBefore |-> lost]]
     /\ hsent' = [hsent EXCEPT ![h] = <<>>]
     /\ hpc' = [hpc EXCEPT ![h] = "add_user"]
     /\ calls' = calls + 1
     /\ lost' = FALSE
     /\ UNCHANGED <<streams, msgs, streamIds, cache, hist>>
     /\ UNCHANGED <<memVars, ltVars, chatVars, ctlVars, ccVars, rcVars, wsVars>>

\* addChatMessage(user message); send(user message); send(placeholder)
AddUserMessage(h) ==
  /\ hpc[h] = "add_user"
  /\ AddChatMessage(call[h].sessionId, call[h].userMessage)
  /\ hsent' = [hsent EXCEPT ![h] = @ \o
       <<renderMessage([call[h].userMessage EXCEPT
                          !.id = StreamId(streamIds + 1)]),
         renderMessage(call[h].response @@ [showRefresh |-> FALSE])>>]
  /\ call' = [call EXCEPT ![h].botResponseSent = TRUE]
  /\ hpc' = [hpc EXCEPT ![h] = IF call[h].noCache THEN "ask" ELSE "lookup"]
  /\ UNCHANGED <<cache, calls, hist, lost>>

\* if (!noCache): findSimilarPrompt(prompt); then the test of the
\* placeholder text
Lookup(h) ==
  /\ hpc[h] = "lookup"
  /\ \E reply \in vss(call[h].prompt) :
       LET message == IF CacheHit(reply)
                        THEN findSimilarPrompt(reply).response
                        ELSE call[h].response.message
       IN /\ call' = [call EXCEPT
               ![h].response.message = message,
               ![h].candidates = CachedResponses(call[h].prompt),
               ![h].source = IF message = Pending THEN @ ELSE "cache"]
          /\ hpc' = [hpc EXCEPT ![h] = IF message = Pending THEN "ask"
                                       ELSE "add_response"]
  /\ UNCHANGED <<hsent, streams, msgs, streamIds, cache, calls, hist,
                 lost>>

\* askLlm: if (result.canCacheResponse)
CanCache(result) == result.canCacheResponse

\* askLlm: getChatMessages, answerPrompt returns result
AskLlm(h, result) ==
  /\ hpc[h] = "ask"
  /\ call' = [call EXCEPT
       ![h].history = MessageHistory(call[h].sessionId),
       ![h].source = "llm",
       ![h].result = result,
       ![h].response.message = IF CanCache(result) THEN @
                               ELSE result.response]
  /\ hpc' = [hpc EXCEPT ![h] = IF CanCache(result) THEN "cache"
                               ELSE "add_response"]
  /\ UNCHANGED <<hsent, streams, msgs, streamIds, cache, calls, hist,
                 lost>>

\* the awaited call of the step throws (the store's first command of the
\* step, or answerPrompt): the call goes on in catch
Throws(h) ==
  /\ hpc[h] \in {"add_user", "lookup", "ask", "cache", "add_response"}
  /\ hpc' = [hpc EXCEPT ![h] = "catch"]
  /\ UNCHANGED <<call, hsent, streams, msgs, streamIds, cache, calls, hist,
                 lost>>

\* askLlm: cachePrompt(cacheId, {...}); return result.response
CacheResponse(h) ==
  LET result == call[h].result
  IN /\ hpc[h] = "cache"
     /\ cachePrompt(call[h].botId,
                    [originalPrompt |-> call[h].prompt,
                     inferredPrompt |-> result.inferredPrompt,
                     response |-> result.response,
                     recommendedTtl |-> result.recommendedTtl])
     /\ call' = [call EXCEPT ![h].cached = TRUE,
                             ![h].response.message = result.response]
     /\ hpc' = [hpc EXCEPT ![h] = "add_response"]
     /\ UNCHANGED <<hsent, streams, msgs, streamIds, calls, hist, lost>>

\* (a replacement that does not name the message it replaces)
NoReplacement(message, replaceId) == message

\* {...response, replaceId: botId}
Replacement(message, replaceId) == [replaceId |-> replaceId] @@ message

\* response.id = await addChatMessage(sessionId, response);
\* send(replacement)
AddResponse(h) ==
  LET response == [call[h].response EXCEPT !.id = StreamId(streamIds + 1)]
      sends == Append(hsent[h],
                      renderMessage(Replacement(response, call[h].botId)))
      locals == [call[h] EXCEPT !.response = response]
  IN /\ hpc[h] = "add_response"
     /\ AddChatMessage(call[h].sessionId, call[h].response)
     /\ call' = [call EXCEPT ![h] = locals]
     /\ hsent' = [hsent EXCEPT ![h] = sends]
     /\ hpc' = [hpc EXCEPT ![h] = "done"]
     /\ Returned(h, locals, sends, "answered")
     /\ UNCHANGED <<cache, calls, lost>>

\* catch (error): the error message, in place of the placeholder if that
\* was sent
HmErrorMessage(botId) ==
  [id |-> botId, message |-> ErrorText, isLocal |-> FALSE]

HmCatch(h) ==
  LET message == HmErrorMessage(call[h].botId) @@ [showRefresh |-> FALSE]
      sends == Append(hsent[h],
                 IF call[h].botResponseSent
                   THEN renderMessage(Replacement(message, call[h].botId))
                   ELSE renderMessage(message))
  IN /\ hpc[h] = "catch"
     /\ hsent' = [hsent EXCEPT ![h] = sends]
     /\ hpc' = [hpc EXCEPT ![h] = "done"]
     /\ Returned(h, call[h], sends, "error")
     /\ UNCHANGED <<call, streams, msgs, streamIds, cache, calls, lost>>

\* clearMessages(send, sessionId): deleteChatMessages deletes the stream
\* and the message keys of its entries
ClearMessages(h, sessionId) ==
  LET keys == {streams[sessionId][i].messageKey :
                 i \in 1..Len(streams[sessionId])}
  IN /\ ~HmRunning(h)
     /\ streams' = [streams EXCEPT ![sessionId] = <<>>]
     /\ msgs' = [k \in DOMAIN msgs \ keys |-> msgs[k]]
     /\ hsent' = [hsent EXCEPT ![h] = <<clearMessagesView>>]
     /\ hpc' = [hpc EXCEPT ![h] = "idle"]
     /\ UNCHANGED <<call, streamIds, cache, calls, hist, lost>>

\* clearCache(send): deleteKeys drops the index, deletes the cache, stream
\* and message keys and creates the index again
ClearCache(h) ==
  /\ ~HmRunning(h)
  /\ createIndexIfNotExists
  /\ cache' = NoDocs
  /\ streams' = [sessionId \in SessionIds |-> <<>>]
  /\ msgs' = NoDocs
  /\ hsent' = [hsent EXCEPT ![h] = <<clearMessagesView>>]
  /\ hpc' = [hpc EXCEPT ![h] = "idle"]
  /\ lost' = TRUE
  /\ UNCHANGED <<call, streamIds, calls, hist>>
  /\ UNCHANGED <<memVars, ltVars, chatVars, ctlVars, ccVars, rcVars, wsVars>>

\* the expiration of a cached document that has one
CacheExpired(key) ==
  /\ HasTtl(cache[key])
  /\ cache' = DelKey(cache, key)
  /\ lost' = TRUE
  /\ UNCHANGED <<hpc, call, hsent, streams, msgs, streamIds, calls,
                 hist>>

NextHm ==
  \/ \E h \in SeqHandlers, sessionId \in SessionIds, prompt \in Prompts,
        noCache \in BOOLEAN :
       /\ NoCallRunning
       /\ calls < MaxCalls
       /\ HandleMessage(h, sessionId, prompt, noCache)
  \/ \E h \in SeqHandlers : AddUserMessage(h) /\ UNCHANGED exceptHm
  \/ \E h \in SeqHandlers : Lookup(h) /\ UNCHANGED exceptHm
  \/ \E h \in SeqHandlers, result \in LlmResults :
       AskLlm(h, result) /\ UNCHANGED exceptHm
  \/ \E h \in SeqHandlers : Throws(h) /\ UNCHANGED exceptHm
  \/ \E h \in SeqHandlers : CacheResponse(h) /\ UNCHANGED exceptHm
  \/ \E h \in SeqHandlers : AddResponse(h) /\ UNCHANGED exceptHm
  \/ \E h \in SeqHandlers : HmCatch(h) /\ UNCHANGED exceptHm
  \/ \E h \in SeqHandlers, sessionId \in SessionIds :
       /\ NoCallRunning
       /\ streams[sessionId] # <<>>
       /\ ClearMessages(h, sessionId)
       /\ UNCHANGED exceptHm
  \/ \E h \in SeqHandlers :
       NoCallRunning /\ cache # NoDocs /\ ClearCache(h)
  \/ \E key \in DOMAIN cache : CacheExpired(key) /\ UNCHANGED exceptHm

SpecHm == Init /\ [][NextHm]_vars

\* the message of the last send of a call that returned
ResponseMessage(rec) == rec.sent[Len(rec.sent)].message

\* two handleMessage calls returned one after the other, for the same
\* prompt in the same session, both with noCache false, and no cached
\* document expired or was deleted from the start of the first to the
\* return of the second
SamePromptTwice ==
  /\ Len(hist) = 2
  /\ hist[1].call.sessionId = hist[2].call.sessionId
  /\ hist[1].call.prompt = hist[2].call.prompt
  /\ ~hist[1].call.noCache
  /\ ~hist[2].call.noCache
  /\ ~hist[2].call.lostBefore
  /\ ~hist[2].lost

ThreeSends(rec) ==
  /\ Len(rec.sent) = 3
  /\ rec.sent[1].message = rec.call.prompt
  /\ rec.sent[1].isLocal
  /\ rec.sent[1].replaceId = Undefined
  /\ rec.sent[2].id = rec.call.botId
  /\ rec.sent[2].message = Pending
  /\ ~rec.sent[2].isLocal
  /\ rec.sent[2].replaceId = Undefined
  /\ rec.sent[3].replaceId = rec.call.botId
  /\ ~rec.sent[3].isLocal

\* the sends of a call so far are the first sends of those three
SendsSoFar(h) ==
  /\ hpc[h] = "add_user" => Len(hsent[h]) = 0
  /\ hpc[h] \in {"lookup", "ask", "cache", "add_response"} =>
       Len(hsent[h]) = 2
  /\ hpc[h] = "catch" =>
       Len(hsent[h]) = IF call[h].botResponseSent THEN 2 ELSE 0

\* C10 as stated: handling one prompt calls send exactly three times: the
\* user message, the "..." placeholder, and the replacement of the
\* placeholder carrying the answer.
C10_ThreeSendsWithAnswer ==
  /\ \A h \in Handlers : SendsSoFar(h)
  /\ \A i \in 1..Len(hist) :
       /\ ThreeSends(hist[i])
       /\ hist[i].outcome = "answered"
       /\ ResponseMessage(hist[i]) = hist[i].call.response.message

\* C10 amended: handling one prompt whose user message is stored calls send
\* exactly three times: the user message, the "..." placeholder, and the
\* replacement of the placeholder, which carries the answer (the cached
\* response or the LLM's) when every later step succeeds and the error
\* message when one fails.  When storing the user message fails, send is
\* called once, with the error message and no replaceId.
C10_ThreeSendsAnswerOrError ==
  /\ \A h \in Handlers : SendsSoFar(h)
  /\ \A i \in 1..Len(hist) :
       /\ hist[i].call.botResponseSent => ThreeSends(hist[i])
       /\ hist[i].outcome = "answered" =>
            /\ hist[i].call.botResponseSent
            /\ ResponseMessage(hist[i]) = hist[i].call.response.message
            /\ hist[i].call.source = "llm" =>
                 ResponseMessage(hist[i]) = hist[i].call.result.response
            /\ hist[i].call.source = "cache" =>
                 ResponseMessage(hist[i]) \in hist[i].call.candidates
            /\ hist[i].sent[3].id # hist[i].call.botId
       /\ hist[i].outcome = "error" =>
            /\ ResponseMessage(hist[i]) = ErrorText
            /\ hist[i].sent[Len(hist[i].sent)].id = hist[i].call.botId
       /\ ~hist[i].call.botResponseSent =>
            /\ hist[i].outcome = "error"
            /\ Len(hist[i].sent) = 1
            /\ hist[i].sent[1].replaceId = Undefined

\* C10 witness: one call failed after its placeholder was sent and sent the
\* error message in place of the placeholder; the next got the answer "r1"
\* from the LLM and sent it in place of its placeholder.
C10_Witness ==
  /\ Len(hist) = 2
  /\ hist[1].outcome = "error"
  /\ ThreeSends(hist[1])
  /\ ResponseMessage(hist[1]) = ErrorText
  /\ hist[2].outcome = "answered"
  /\ hist[2].call.source = "llm"
  /\ ResponseMessage(hist[2]) = "r1"
  /\ hist[2].sent[3].replaceId = hist[2].call.botId

(***************************************************************************)
(* The placeholder and its replacement, in processChat and in              *)
(* handleMessage.  The two controllers belong to two versions of the       *)
(* server: a run is a run of one of them.  An awaited call settles sooner  *)
(* or later (it resolves or it rejects), so the continuation of a call in  *)
(* flight is run in the end.                                               *)
(***************************************************************************)
\* the continuation of the processChat call of h after an await
TurnStep(h) ==
  /\ \/ PushUserMessage(h)
     \/ AskQuestion(h)
     \/ AskSearch(h)
     \/ \E content \in Answers : LlmAnswer(h, content)
     \/ LlmFail(h)
     \/ PushAnswer(h)
     \/ Extract(h)
     \/ StepFails(h)
     \/ Catch(h)
  /\ UNCHANGED <<hmVars, ccVars, rcVars, wsVars>>

\* the continuation of the handleMessage call of h after an await
HmStep(h) ==
  /\ \/ AddUserMessage(h)
     \/ Lookup(h)
     \/ \E result \in LlmResults : AskLlm(h, result)
     \/ Throws(h)
     \/ CacheResponse(h)
     \/ AddResponse(h)
     \/ HmCatch(h)
  /\ UNCHANGED exceptHm

NextReplace ==
  \/ \E h \in SeqHandlers, chatId \in KnownChatIds, message \in Contents :
       /\ calls = 0
       /\ NoTurnInFlight
       /\ turns < MaxReplaceCalls
       /\ ProcessChat(h, "u1", chatId, message)
       /\ UNCHANGED <<hmVars, ccVars, rcVars, wsVars>>
  \/ \E h \in SeqHandlers : LlmTool(h) /\ UNCHANGED <<hmVars, ccVars, rcVars, wsVars>>
  \/ \E h \in SeqHandlers : TurnStep(h)
  \/ \E h \in SeqHandlers, sessionId \in SessionIds, prompt \in Prompts,
        noCache \in BOOLEAN :
       /\ turns = 0
       /\ NoCallRunning
       /\ calls < MaxReplaceCalls
       /\ HandleMessage(h, sessionId, prompt, noCache)
  \/ \E h \in SeqHandlers : HmStep(h)

SpecReplace ==
  /\ Init
  /\ [][NextReplace]_vars
  /\ \A h \in SeqHandlers : WF_vars(TurnStep(h)) /\ WF_vars(HmStep(h))

\* the sends of the call of h that name its placeholder as the one to
\* replace
TurnReplacements(h) ==
  {i \in 1..Len(sent[h]) : Field(sent[h][i], "replaceId") = turn[h].botId}

HmReplacements(h) ==
  {i \in 1..Len(hsent[h]) : Field(hsent[h][i], "replaceId") = call[h].botId}

\* processChat: no replacement without a placeholder, never two, and a call
\* that returned after its placeholder has sent one, last: the answer it
\* pushed or the error message
TurnReplacedOnce(h) ==
  turn[h] # NoTurn =>
    /\ Cardinality(TurnReplacements(h)) <= 1
    /\ ~turn[h].botResponseSent => TurnReplacements(h) = {}
    /\ (pc[h] = "done" /\ turn[h].botResponseSent) =>
         /\ Len(sent[h]) = 3
         /\ sent[h][2].id = turn[h].botId
         /\ sent[h][2].content = Pending
         /\ TurnReplacements(h) = {3}
         /\ \/ sent[h][3].content = ErrorText
            \/ /\ sent[h][3].content = turn[h].response.content
               /\ sent[h][3].content # Pending
               /\ sent[h][3].id = turn[h].response.id

\* handleMessage: the same
HmReplacedOnce(h) ==
  (hpc[h] # "idle" /\ call[h] # NoCall) =>
    /\ Cardinality(HmReplacements(h)) <= 1
    /\ ~call[h].botResponseSent => HmReplacements(h) = {}
    /\ (hpc[h] = "done" /\ call[h].botResponseSent) =>
         /\ Len(hsent[h]) = 3
         /\ hsent[h][2].id = call[h].botId
         /\ hsent[h][2].message = Pending
         /\ HmReplacements(h) = {3}
         /\ \/ /\ hsent[h][3].message = ErrorText
               /\ hsent[h][3].id = call[h].botId
            \/ /\ hsent[h][3].message = call[h].response.message
               /\ hsent[h][3].id = call[h].response.id
               /\ hsent[h][3].id # call[h].botId

\* C20: once processChat or handleMessage has sent the "..." placeholder,
\* the call sends exactly one message with replaceId equal to the
\* placeholder's id, the answer or (when a later step fails) the error
\* message, and it does send it: the placeholder is not left as it is.
C20_PlaceholderReplacedOnce ==
  /\ [](\A h \in SeqHandlers : TurnReplacedOnce(h) /\ HmReplacedOnce(h))
  /\ \A h \in SeqHandlers :
       /\ (Running(h) /\ turn[h].botResponseSent)
            ~> (pc[h] = "done" /\ Cardinality(TurnReplacements(h)) = 1)
       /\ (HmRunning(h) /\ call[h].botResponseSent)
            ~> (hpc[h] = "done" /\ Cardinality(HmReplacements(h)) = 1)

\* C20 witness: the LLM gave an answer, pushing it failed, and the error
\* message was sent in place of the placeholder; the transcript holds the
\* user message alone.
C20_Witness ==
  /\ pc["h1"] = "done"
  /\ turn["h1"].asked
  /\ turn["h1"].response.content \in Answers
  /\ chats[turn["h1"].chatKey].messages = <<turn["h1"].userMessage>>
  /\ Len(sent["h1"]) = 3
  /\ sent["h1"][3].content = ErrorText
  /\ sent["h1"][3].replaceId = turn["h1"].botId
  /\ sent["h1"][2].content = Pending

(***************************************************************************)
(* The search over several stores of the earlier store modules:            *)
(* search(question, {sessionId, userMemory, semanticMemory},               *)
(* {count, maxDistance}), and vss with long-term and global memory, which  *)
(* is the same code under other names.                                     *)
(***************************************************************************)
\* maxDistance = 0.5, in hundredths
maxDistance == 50

MaxCount == 2

\* the documents of a store that a lookup with this sessionId looks at:
\* @sessionId:{...}, or * without one
InSession(docs, sessionId) ==
  IF sessionId = Undefined THEN docs
  ELSE [key \in {k \in DOMAIN docs : docs[k].sessionId = sessionId} |->
          docs[key]]

\* lookup(embedding, index, {sessionId, count}): the replies FT.SEARCH may
\* give, KNN count, SORTBY distance, the distance returned in the value
lookup(embedding, docs, sessionId, count) ==
  {[i \in 1..Len(reply) |->
      [id |-> reply[i].id,
       value |-> [distance |-> reply[i].distance] @@ reply[i].value]] :
     reply \in KnnReplies(InSession(docs, sessionId), "embedding", embedding,
                          count)}

\* (doc.value.distance ?? maxDistance + 1) <= maxDistance
WithinMaxDistance(doc, max) ==
  IF "distance" \in DOMAIN doc.value
    THEN NumLeq(parseFloat(doc.value.distance), max)
    ELSE max + 1 <= max

\* documents.filter(...).slice(0, count) of the documents pushed store after
\* store
search(userReply, semanticReply, memory, count) ==
  LET pushed1 == IF memory.userMemory /\ memory.sessionId # Undefined
                   THEN userReply ELSE <<>>
      pushed2 == IF memory.semanticMemory THEN pushed1 \o semanticReply
                 ELSE pushed1
      within == SelectSeqOf(pushed2,
                            {doc \in SeqRange(pushed2) :
                               WithinMaxDistance(doc, maxDistance)})
      documents == SubSeq(within, 1, Min(count, Len(within)))
  IN [total |-> Len(documents), documents |-> documents]

\* the stores a search may find: up to two documents each, the first at
\* distance 0.1 or 0.3 of the question q0, the second at 0.6
LegacyStores(index) ==
  {[key \in {<<index, "s1", ToString(n)>> : n \in ns} |->
      [embedding |-> IF key[3] = "1" THEN near ELSE 60, sessionId |-> "s1"]] :
     ns \in SUBSET {1, 2}, near \in {10, 30}}

LegacySearch(userDocs, semanticDocs, question, memory, count) ==
  /\ \E userReply \in lookup(embed(question), userDocs, memory.sessionId,
                              count),
        semanticReply \in lookup(embed(question), semanticDocs, Undefined,
                                  count) :
       ret' = [op |-> "legacy.search", userDocs |-> userDocs,
               semanticDocs |-> semanticDocs, question |-> question,
               memory |-> memory, count |-> count,
               result |-> search(userReply, semanticReply, memory, count)]
  /\ UNCHANGED <<nextUid, sem, epi, lng, expiry>>

NextLegacySearch ==
  \E userDocs \in LegacyStores("user"), semanticDocs \in LegacyStores("semantic"),
     sessionId \in {Undefined, "s1"}, userMemory \in BOOLEAN,
     semanticMemory \in BOOLEAN, count \in 1..MaxCount :
    /\ LegacySearch(userDocs, semanticDocs, "q0",
                    [sessionId |-> sessionId, userMemory |-> userMemory,
                     semanticMemory |-> semanticMemory], count)
    /\ UNCHANGED exceptMem

SpecLegacySearch == Init /\ [][NextLegacySearch]_vars

\* the documents of the stores a search looked at that lie within
\* maxDistance of the question
Searched(called) ==
  LET user == IF called.memory.userMemory /\ called.memory.sessionId # Undefined
                THEN InSession(called.userDocs, called.memory.sessionId)
                ELSE NoDocs
      semantic == IF called.memory.semanticMemory THEN called.semanticDocs
                  ELSE NoDocs
  IN {Distance(user[key].embedding, embed(called.question)) :
        key \in DOMAIN user}
       \cup {Distance(semantic[key].embedding, embed(called.question)) :
               key \in DOMAIN semantic}

\* C30: the documents a search over several stores returns are in ascending
\* order of distance, and the first of them is the nearest of all documents
\* of the searched stores.
C30_MergedAscending ==
  ret.op = "legacy.search" =>
    LET documents == ret.result.documents
        d(i) == parseFloat(documents[i].value.distance).v
    IN /\ \A i \in 1..(Len(documents) - 1) : d(i) <= d(i + 1)
       /\ Len(documents) > 0 => \A other \in Searched(ret) : d(1) <= other

(***************************************************************************)
(* regenerateMessage(send, sessionId, entryId) of the prompt-cache         *)
(* controller, with the store's getPreviousChatMessage, getChatMessage and *)
(* changeChatMessage.                                                      *)
(***************************************************************************)
MaxRegenCalls == 3

MaxEntryNum == 4

\* the stream entry ids a client may name; entry-0 is older than every entry
EntryIds == {StreamId(n) : n \in 0..MaxEntryNum}

\* the place of an entry id in the order of the stream's ids
EntryNum(entryId) == CHOOSE n \in 0..MaxEntryNum : StreamId(n) = entryId

\* XREVRANGE key end - COUNT count: the newest entries up to end, newest
\* first
xRevRange(entries, end, count) ==
  LET upTo == SelectSeqOf(entries,
                {e \in SeqRange(entries) : EntryNum(e.id) <= EntryNum(end)})
      n == Min(count, Len(upTo))
  IN [i \in 1..n |-> upTo[Len(upTo) + 1 - i]]

\* XRANGE key id id
xRange(entries, id) ==
  SelectSeqOf(entries, {e \in SeqRange(entries) : e.id = id})

\* the message of a stream entry: GET of its message key
EntryMessage(entry) ==
  [id |-> entry.id, messageKey |-> entry.messageKey,
   message |-> IF entry.messageKey \in DOMAIN msgs
                 THEN msgs[entry.messageKey] ELSE "",
   isLocal |-> StrBool(entry.isLocal)]

\* getPreviousChatMessage: null without entries, entries[1] otherwise; with
\* one entry, entries[1] is undefined and reading it throws
getPreviousChatMessage(sessionId, entryId) ==
  LET entries == xRevRange(streams[sessionId], entryId, 2)
  IN IF Len(entries) = 0 THEN Null
     ELSE IF Len(entries) = 1 THEN [threw |-> TRUE]
     ELSE EntryMessage(entries[2])

\* getChatMessage: null without the entry
getChatMessage(sessionId, entryId) ==
  LET entries == xRange(streams[sessionId], entryId)
  IN IF Len(entries) = 0 THEN Null ELSE EntryMessage(entries[1])

NoPreviousText == "No previous message found to regenerate."

RegenErrorText == "An error occurred while regenerating the message."

\* (a SET of every message key)
changeEveryMessage(docs, id, newValue) ==
  [key \in DOMAIN docs \cup {id} |-> newValue]

\* changeChatMessage(id, newValue): SET id newValue
changeChatMessage(docs, id, newValue) == JsonSet(docs, id, newValue)

\* the message regenerateMessage sends in place of the entry
RegenView(entryId, text) ==
  renderMessage([replaceId |-> entryId, id |-> entryId, message |-> text,
                 isLocal |-> FALSE])

\* regenerateMessage up to its first await inside try
RegenerateMessage(h, sessionId, entryId) ==
  LET promptMessage == getPreviousChatMessage(sessionId, entryId)
      responseMessage == getChatMessage(sessionId, entryId)
      locals == [sessionId |-> sessionId, entryId |-> entryId,
                 botId |-> ChatBotId(calls + 1),
                 promptMessage |-> promptMessage,
                 responseMessage |-> responseMessage,
                 result |-> NoResult, outcome |-> "running"]
  IN /\ ~HmRunning(h)
     /\ calls' = calls + 1
     /\ IF promptMessage = [threw |-> TRUE]
          THEN /\ call' = [call EXCEPT ![h] =
                            [locals EXCEPT !.outcome = "rejected"]]
               /\ hsent' = [hsent EXCEPT ![h] = <<>>]
               /\ hpc' = [hpc EXCEPT ![h] = "done"]
          ELSE IF promptMessage = Null \/ responseMessage = Null
          THEN /\ call' = [call EXCEPT ![h] =
                            [locals EXCEPT !.outcome = "none"]]
               /\ hsent' = [hsent EXCEPT ![h] =
                              <<RegenView(entryId, NoPreviousText)>>]
               /\ hpc' = [hpc EXCEPT ![h] = "done"]
          ELSE /\ call' = [call EXCEPT ![h] = locals]
               /\ hsent' = [hsent EXCEPT ![h] =
                              <<[RegenView(entryId, Pending)
                                   EXCEPT !.showRefresh = FALSE]>>]
               /\ hpc' = [hpc EXCEPT ![h] = "regen_ask"]
     /\ UNCHANGED <<streams, msgs, streamIds, cache, hist, lost>>

\* askLlm(sessionId, promptMessage.message, botId): getChatMessages,
\* answerPrompt returns result
RegenAsk(h, result) ==
  /\ hpc[h] = "regen_ask"
  /\ call' = [call EXCEPT ![h].result = result]
  /\ hpc' = [hpc EXCEPT ![h] = IF CanCache(result) THEN "regen_cache"
                               ELSE "regen_change"]
  /\ UNCHANGED <<hsent, streams, msgs, streamIds, cache, calls, hist, lost>>

\* askLlm: cachePrompt(cacheId, {...})
RegenCache(h) ==
  LET result == call[h].result
  IN /\ hpc[h] = "regen_cache"
     /\ cachePrompt(call[h].botId,
                    [originalPrompt |-> call[h].promptMessage.message,
                     inferredPrompt |-> result.inferredPrompt,
                     response |-> result.response,
                     recommendedTtl |-> result.recommendedTtl])
     /\ hpc' = [hpc EXCEPT ![h] = "regen_change"]
     /\ UNCHANGED <<call, hsent, streams, msgs, streamIds, calls, hist,
                    lost>>

\* changeChatMessage(responseMessage.messageKey, text); send(response)
RegenChange(h) ==
  LET text == call[h].result.response
  IN /\ hpc[h] = "regen_change"
     /\ msgs' = changeChatMessage(msgs, call[h].responseMessage.messageKey,
                                  text)
     /\ hsent' = [hsent EXCEPT ![h] =
                    Append(@, RegenView(call[h].entryId, text))]
     /\ call' = [call EXCEPT ![h].outcome = "answered"]
     /\ hpc' = [hpc EXCEPT ![h] = "done"]
     /\ UNCHANGED <<streams, streamIds, cache, calls, hist, lost>>

\* the awaited call of the step throws (answerPrompt, or the store's
\* command): catch sends the error message
RegenThrows(h) ==
  /\ hpc[h] \in {"regen_ask", "regen_cache", "regen_change"}
  /\ hsent' = [hsent EXCEPT ![h] =
                 Append(@, RegenView(call[h].entryId, RegenErrorText))]
  /\ call' = [call EXCEPT ![h].outcome = "error"]
  /\ hpc' = [hpc EXCEPT ![h] = "done"]
  /\ UNCHANGED <<streams, msgs, streamIds, cache, calls, hist, lost>>

\* the answers of the LLM in the runs of regenerateMessage
RegenResults ==
  {result \in LlmResults :
     /\ result.response # Pending
     /\ result.inferredPrompt = "q0"
     /\ result.recommendedTtl = -1}

NextRegen ==
  \/ \E h \in SeqHandlers, noCache \in BOOLEAN :
       /\ NoCallRunning
       /\ calls < MaxRegenCalls
       /\ HandleMessage(h, "s1", "q0", noCache)
  \/ \E h \in SeqHandlers : AddUserMessage(h) /\ UNCHANGED exceptHm
  \/ \E h \in SeqHandlers : Lookup(h) /\ UNCHANGED exceptHm
  \/ \E h \in SeqHandlers, result \in RegenResults :
       AskLlm(h, result) /\ UNCHANGED exceptHm
  \/ \E h \in SeqHandlers : Throws(h) /\ UNCHANGED exceptHm
  \/ \E h \in SeqHandlers : CacheResponse(h) /\ UNCHANGED exceptHm
  \/ \E h \in SeqHandlers : AddResponse(h) /\ UNCHANGED exceptHm
  \/ \E h \in SeqHandlers : HmCatch(h) /\ UNCHANGED exceptHm
  \/ \E h \in SeqHandlers, entryId \in EntryIds :
       /\ NoCallRunning
       /\ calls < MaxRegenCalls
       /\ RegenerateMessage(h, "s1", entryId)
       /\ UNCHANGED exceptHm
  \/ \E h \in SeqHandlers, result \in RegenResults :
       RegenAsk(h, result) /\ UNCHANGED exceptHm
  \/ \E h \in SeqHandlers : RegenCache(h) /\ UNCHANGED exceptHm
  \/ \E h \in SeqHandlers : RegenChange(h) /\ UNCHANGED exceptHm
  \/ \E h \in SeqHandlers : RegenThrows(h) /\ UNCHANGED exceptHm

SpecRegen == Init /\ [][NextRegen]_vars

\* a step of the regenerateMessage call of handler h
RegenStepOf(h) ==
  /\ "entryId" \in DOMAIN call'[h]
  /\ <<hpc[h], call[h], hsent[h]>>' # <<hpc[h], call[h], hsent[h]>>

\* C31: no step of a regenerateMessage call changes the stream (its
\* entries, their order, their ids) or the set of message keys, and the
\* only message whose content it may change is the one under the message
\* key of the entry it was called for; this holds for the steps of a call
\* that ends in the error message as well.
C31_RegenerateFrame ==
  [][\A h \in Handlers :
       RegenStepOf(h) =>
         /\ streams' = streams
         /\ streamIds' = streamIds
         /\ DOMAIN msgs' = DOMAIN msgs
         /\ \A key \in DOMAIN msgs :
              msgs'[key] # msgs[key] =>
                /\ call'[h].responseMessage # Null
                /\ key = call'[h].responseMessage.messageKey
                /\ call'[h].outcome = "answered"
    ]_vars

\* C31 witness: the second entry of a stream of two, a bot entry that held
\* r1, has been regenerated to r2 by the third call of the run.
C31_Witness ==
  /\ hpc["h1"] = "done"
  /\ "entryId" \in DOMAIN call["h1"]
  /\ call["h1"].outcome = "answered"
  /\ call["h1"].responseMessage.message = "r1"
  /\ ~call["h1"].responseMessage.isLocal
  /\ Len(streams["s1"]) = 2
  /\ streams["s1"][2].id = call["h1"].entryId
  /\ msgs[streams["s1"][2].messageKey] = "r2"
  /\ msgs[streams["s1"][1].messageKey] = "q0"
  /\ calls = 3

(***************************************************************************)
(* The registry of Redis clients (redis.ts): getClient, the error handler  *)
(* it installs on each client, refreshClient.                              *)
(***************************************************************************)
\* let maxRetries = 5
maxRetries == 5

MaxErrors == 6

exceptRc ==
  <<idxVars, memVars, ltVars, chatVars, ctlVars, hmVars, ccVars, wsVars>>

\* clients[options.url] after getClient(options): the registered client, or
\* a new one made by createClient and registered
Registered(registry, url, fresh) ==
  IF registry[url] # 0 THEN registry
  ELSE [registry EXCEPT ![url] = fresh]

\* getClient({url})
GetClient(url) ==
  LET fresh == Len(made) + 1
  IN /\ clients' = Registered(clients, url, fresh)
     /\ made' = IF clients[url] # 0 THEN made
                ELSE Append(made, [url |-> url, destroyed |-> FALSE])
     /\ rcRet' = [op |-> "getClient", url |-> url, client |-> clients'[url]]
     /\ UNCHANGED <<retries, connectionsRefused, refreshed, errors>>

\* (a test that lets every error reconnect)
CanRetryAlways(clientRetries) == TRUE

\* if (clientRetries < maxRetries)
CanRetry(clientRetries) == clientRetries < maxRetries

\* refreshClient(client): delete clients[url]; getClient(options), which
\* finds no client for the url and registers a new one
Refreshed(registry, url, client, fresh) ==
  Registered([registry EXCEPT ![url] = 0], url, fresh)

\* the handler of an "error" event of a client: ECONNREFUSED is logged once
\* and ignored; any other error destroys the client and, while retries are
\* left, counts one and calls refreshClient
ClientError(client, refused) ==
  LET url == made[client].url
      fresh == Len(made) + 1
      retry == CanRetry(retries[url])
  IN /\ errors' = errors + 1
     /\ rcRet' = [op |-> "error", url |-> url, client |-> client,
                  refused |-> refused, retried |-> ~refused /\ retry]
     /\ IF refused
          THEN /\ connectionsRefused' = [connectionsRefused EXCEPT
                                           ![url] = TRUE]
               /\ UNCHANGED <<clients, made, retries, refreshed>>
          ELSE /\ retries' = IF retry THEN [retries EXCEPT ![url] = @ + 1]
                             ELSE retries
               /\ refreshed' = IF retry THEN [refreshed EXCEPT ![url] = @ + 1]
                               ELSE refreshed
               /\ clients' = IF retry
                               THEN Refreshed(clients, url, client, fresh)
                               ELSE clients
               /\ made' = LET destroyed == [made EXCEPT
                                              ![client].destroyed = TRUE]
                          IN IF retry
                               THEN Append(destroyed,
                                           [url |-> url, destroyed |-> FALSE])
                               ELSE destroyed
               /\ UNCHANGED connectionsRefused

NextClients ==
  \/ \E url \in Urls : GetClient(url) /\ UNCHANGED exceptRc
  \/ \E client \in DOMAIN made, refused \in BOOLEAN :
       /\ errors < MaxErrors
       /\ ClientError(client, refused)
       /\ UNCHANGED exceptRc

SpecClients == Init /\ [][NextClients]_vars

\* the clients made for a url that have not been destroyed
Live(url) ==
  {client \in DOMAIN made :
     made[client].url = url /\ ~made[client].destroyed}

\* C32: for every URL at most one client that has not been destroyed
\* exists, and it is the one the registry holds (the one getClient returns).
C32_OneClientPerUrl ==
  \A url \in Urls :
    /\ Cardinality(Live(url)) <= 1
    /\ Live(url) # {} => clients[url] \in Live(url)

\* C33: the retries counter of a URL never exceeds maxRetries,
\* refreshClient has been called for the URL as often as the counter says,
\* and an error event for a URL whose counter is at maxRetries makes no
\* client and leaves the registry as it is.
C33_ReconnectsBounded ==
  /\ [](\A url \in Urls :
          retries[url] <= maxRetries /\ refreshed[url] = retries[url])
  /\ [][(rcRet'.op = "error" /\ errors' # errors
           /\ retries[rcRet'.url] = maxRetries)
          => (/\ clients' = clients /\ Len(made') = Len(made)
              /\ refreshed' = refreshed /\ retries' = retries)]_vars

\* C33 witness: five errors of url1's clients have each made a reconnect,
\* and the sixth has made none.
C33_Witness ==
  /\ rcRet.op = "error" /\ rcRet.url = "url1" /\ ~rcRet.refused
  /\ ~rcRet.retried
  /\ errors = 6
  /\ retries["url1"] = 5 /\ refreshed["url1"] = 5
  /\ Len(made) = 6

(***************************************************************************)
(* One websocket connection of the chat: every new_message event starts a  *)
(* handler that passes the connection's currentChatId to processChat and   *)
(* assigns what the call returns.  A message event can be delivered while  *)
(* the handler of an earlier one is waiting.                               *)
(***************************************************************************)
\* new_message commands received on the connection in a run.
MaxMessages == 3

\* const userId = req.session.id
SocketUser == "u1"

\* case "new_message": ctrl.processChat(send, {userId, chatId:
\* currentChatId, message: form.message}), up to its first await inside try
OnNewMessage(h, message) ==
  /\ pc[h] = "idle"
  /\ turns < MaxMessages
  /\ ProcessChat(h, SocketUser, currentChatId, message)
  /\ UNCHANGED wsVars

\* currentChatId = await ctrl.processChat(...);
\* req.session.currentChatId = currentChatId; req.session.save()
OnProcessed(h) ==
  /\ pc[h] = "done"
  /\ currentChatId' = KeyChatId(turn[h].chatKey)
  /\ sessionChatId' = KeyChatId(turn[h].chatKey)
  /\ pc' = [pc EXCEPT ![h] = "idle"]
  /\ UNCHANGED <<idxVars, memVars, ltVars, chatVars, turn, sent, turns,
                 llmCalls, summarized>>

exceptCtl == <<hmVars, ccVars, rcVars, wsVars>>

exceptWs == <<hmVars, ccVars, rcVars>>

NextSocket ==
  \/ \E h \in Handlers, message \in Contents :
       OnNewMessage(h, message) /\ UNCHANGED exceptWs
  \/ \E h \in Handlers : PushUserMessage(h) /\ UNCHANGED exceptCtl
  \/ \E h \in Handlers : AskQuestion(h) /\ UNCHANGED exceptCtl
  \/ \E h \in Handlers : AskSearch(h) /\ UNCHANGED exceptCtl
  \/ \E h \in Handlers : LlmAnswer(h, "a1") /\ UNCHANGED exceptCtl
  \/ \E h \in Handlers : LlmFail(h) /\ UNCHANGED exceptCtl
  \/ \E h \in Handlers : PushResponse(h) /\ UNCHANGED exceptCtl
  \/ \E h \in Handlers : Catch(h) /\ UNCHANGED exceptCtl
  \/ \E h \in Handlers : OnProcessed(h) /\ UNCHANGED exceptWs

SpecSocket == Init /\ [][NextSocket]_vars

\* C35: the new_message commands of one connection, with no new_chat or
\* switch_chat between them, all go to one chat: at most one chat document
\* is created for them, also when a message arrives before the handling of
\* an earlier one has finished.
C35_OneChatPerConnection ==
  /\ Cardinality(ChatKeysOf(SocketUser)) <= 1
  /\ \A h \in Handlers, g \in Handlers :
       (turn[h] # NoTurn /\ turn[g] # NoTurn) =>
         turn[h].chatKey = turn[g].chatKey

\* C36: the question a processChat call's ask looks up in memory and sends
\* to the LLM is the content of the user message given to that call, also
\* when another processChat on the same chat overlaps it.
C36_QuestionIsOwnMessage ==
  \A h \in Handlers :
    (turn[h] # NoTurn /\ turn[h].question # "") =>
      turn[h].question = turn[h].message

(***************************************************************************)
(* summarizeChat, which the connection runs after every processChat, and   *)
(* the messages ask passes to the LLM once a summary is stored.            *)
(***************************************************************************)
\* if (messagesToSummarize.length < 5) return
summarizeMin == 5
\* Messages pushed, and milliseconds that pass, in a run of summarizeChat.
MaxSummaryMessages == 6
MaxSummaryClock == 3

\* messages.filter(m => dayjs(m.createdAt).isAfter(lastSummarized))
AfterSummarized(messages, lastSummarizedAt) ==
  SelectSeqOf(messages,
              {m \in SeqRange(messages) : m.timestamp > lastSummarizedAt})

\* ask: the messages given to answerPrompt beside the summary
AskMessages(doc) ==
  IF doc.summary # ""
    THEN AfterSummarized(Messages(doc), doc.lastSummarizedAt)
    ELSE Messages(doc)

\* summarizeChat up to `await summarize(...)`: return when fewer than five
\* messages are newer than the last summary
SummarizeChat(c, key) ==
  LET messagesToSummarize ==
        AfterSummarized(Messages(chats[key]), chats[key].lastSummarizedAt)
  IN /\ cpc[c] = "idle"
     /\ key \in DOMAIN chats
     /\ IF Len(messagesToSummarize) < summarizeMin
          THEN /\ cop' = [cop EXCEPT ![c] =
                            [op |-> "summarizeChat", key |-> key,
                             messagesToSummarize |-> <<>>]]
               /\ UNCHANGED cpc
          ELSE /\ cop' = [cop EXCEPT ![c] =
                            [op |-> "summarizeChat", key |-> key,
                             messagesToSummarize |-> messagesToSummarize]]
               /\ cpc' = [cpc EXCEPT ![c] = "awaiting"]
     /\ chatRet' = [op |-> "summarizeChat", key |-> key]
     /\ UNCHANGED <<chats, chatUid, clock, pushed, summarized>>

\* summarize(...) returns newSummary; await chat.updateSummary(newSummary)
SummarizeUpdate(c, newSummary) ==
  /\ cpc[c] = "awaiting"
  /\ cop[c].op = "summarizeChat"
  /\ cop[c].key \in DOMAIN chats
  /\ chats' = [chats EXCEPT ![cop[c].key] =
                 JsonMerge(@, [summary |-> newSummary,
                               lastSummarizedAt |-> clock])]
  /\ summarized' = summarized
       \cup {cop[c].messagesToSummarize[i].id :
               i \in 1..Len(cop[c].messagesToSummarize)}
  /\ chatRet' = [op |-> "updateSummary", key |-> cop[c].key]
  /\ cpc' = [cpc EXCEPT ![c] = "idle"]
  /\ UNCHANGED <<chatUid, clock, pushed, cop>>

\* summarize(...) throws: catch (error) logs it
SummarizeFails(c) ==
  /\ cpc[c] = "awaiting"
  /\ cop[c].op = "summarizeChat"
  /\ cpc' = [cpc EXCEPT ![c] = "idle"]
  /\ UNCHANGED <<chatVars, cop, summarized>>

\* time passes
SummaryTick ==
  /\ clock < MaxSummaryClock
  /\ clock' = clock + 1
  /\ UNCHANGED <<chats, chatUid, pushed, chatRet>>

\* the caller that summarizes
Summarizers == {"a"}

exceptSummary ==
  <<idxVars, memVars, ltVars, ctlVars, hmVars, rcVars, currentChatId,
    sessionChatId>>

NextSummary ==
  \/ /\ chats = NoDocs
     /\ ChatNew(SocketUser)
     /\ UNCHANGED <<exceptSummary, ccVars, summarized>>
  \/ \E key \in DOMAIN chats, role \in Roles :
       /\ chatUid <= MaxSummaryMessages
       /\ ChatPush(key, role, "q0")
       /\ UNCHANGED <<exceptSummary, ccVars, summarized>>
  \/ \E c \in Summarizers, key \in DOMAIN chats :
       SummarizeChat(c, key) /\ UNCHANGED exceptSummary
  \/ \E c \in Summarizers, newSummary \in Summaries :
       SummarizeUpdate(c, newSummary) /\ UNCHANGED exceptSummary
  \/ \E c \in Summarizers : SummarizeFails(c) /\ UNCHANGED exceptSummary
  \/ SummaryTick /\ UNCHANGED <<exceptSummary, ccVars, summarized>>

SpecSummary == Init /\ [][NextSummary]_vars

\* C37: every message of a chat's transcript either was in the input of a
\* summarize call whose summary was stored, or is among the messages ask
\* passes to the LLM; also when a message is pushed while summarizeChat is
\* running.
C37_NoMessageLeavesContext ==
  \A key \in DOMAIN chats :
    \A m \in SeqRange(Messages(chats[key])) :
      \/ m.id \in summarized
      \/ m \in SeqRange(AskMessages(chats[key]))

(***************************************************************************)
(* ChatModel.AllChats from await to await: the FT.SEARCH, then for every   *)
(* document of the reply FromChatId and top().  clearMemory and clearChat  *)
(* of other handlers run between its steps.                                *)
(***************************************************************************)
\* Chats made by their users, and ids handed out, in a run of AllChats with
\* overlapping calls.
MaxListChats == 2
MaxListUids == 4

\* the documents of the reply: id and the RETURN fields
SearchAllDocuments(keys) ==
  {[id |-> key,
    value |-> [userId |-> chats[key].userId, chatId |-> chats[key].chatId,
               summary |-> chats[key].summary,
               lastSummarizedAt |-> chats[key].lastSummarizedAt]] :
     key \in keys}

\* AllChats up to the reply of db.ft.search: Initialize, FT.SEARCH "*";
\* return [] when all.total <= 0
AllChatsSearch(c, userId) ==
  /\ cpc[c] = "idle"
  /\ \E keys \in SearchAllReplies(userId) :
       /\ cop' = [cop EXCEPT ![c] =
                    [op |-> "allChats", userId |-> userId,
                     documents |-> SearchAllDocuments(keys),
                     result |-> {}]]
       /\ IF keys = {}
            THEN /\ chatRet' = [op |-> "allChats", userId |-> userId,
                                result |-> {}]
                 /\ UNCHANGED cpc
            ELSE /\ cpc' = [cpc EXCEPT ![c] = "awaiting"]
                 /\ UNCHANGED chatRet
  /\ EnsureIndexes({ChatIndex(userId)})
  /\ UNCHANGED <<chats, chatUid, clock, pushed>>

\* the callback of all.documents.map for one document: FromChatId(db,
\* userId, dbChat.chatId), model.top(), { ...dbChat, messages }
AllChatsDocument(c, document) ==
  LET userId == cop[c].userId
      modelKey == FromChatIdKey(userId, document.value.chatId)
      top == IF modelKey \in DOMAIN chats THEN Top(chats[modelKey]) ELSE Null
  IN /\ cpc[c] = "awaiting"
     /\ cop[c].op = "allChats"
     /\ document \in cop[c].documents
     /\ FromChatId(userId, document.value.chatId)
     /\ EnsureIndexes({ChatIndex(userId)})
     /\ cop' = [cop EXCEPT
                  ![c].documents = @ \ {document},
                  ![c].result = @ \cup
                    {[messages |-> IF top = Null THEN <<>> ELSE <<top>>]
                       @@ document.value}]
     /\ UNCHANGED cpc

\* Promise.all resolves: AllChats returns the entries
AllChatsReturn(c) ==
  /\ cpc[c] = "awaiting"
  /\ cop[c].op = "allChats"
  /\ cop[c].documents = {}
  /\ chatRet' = [op |-> "allChats", userId |-> cop[c].userId,
                 result |-> cop[c].result]
  /\ cpc' = [cpc EXCEPT ![c] = "idle"]
  /\ UNCHANGED <<idxVars, chats, chatUid, clock, pushed, cop>>

\* the caller that lists the chats
Listers == {"a"}

exceptList == <<ltVars, ctlVars, hmVars, rcVars, wsVars>>

NextAllChatsConc ==
  \/ \E userId \in Users :
       /\ chatUid < MaxListChats
       /\ ChatNew(userId)
       /\ UNCHANGED <<exceptCc, ccVars>>
  \/ \E key \in DOMAIN chats, role \in Roles :
       /\ chatUid < MaxListUids
       /\ ChatPush(key, role, "q0")
       /\ UNCHANGED <<exceptCc, ccVars>>
  \/ \E c \in Listers, userId \in Users :
       AllChatsSearch(c, userId) /\ UNCHANGED <<memVars, exceptList>>
  \/ \E c \in Listers :
       /\ cpc[c] = "awaiting"
       /\ chatUid < MaxListUids
       /\ \E document \in cop[c].documents : AllChatsDocument(c, document)
       /\ UNCHANGED <<memVars, exceptList>>
  \/ \E c \in Listers :
       AllChatsReturn(c) /\ UNCHANGED <<memVars, exceptList>>
  \/ \E userId \in Users, chatId \in KnownChatIds :
       /\ ChatExists(userId, chatId)
       /\ ClearChat(userId, chatId)
       /\ UNCHANGED <<hmVars, ccVars, rcVars, wsVars>>
  \/ \E userId \in Users :
       /\ chats # NoDocs
       /\ ClearMemory(userId)
       /\ UNCHANGED <<hmVars, ccVars, rcVars, wsVars>>

SpecAllChatsConc == Init /\ [][NextAllChatsConc]_vars

\* a step of the AllChats call of c
AllChatsStepOf(c) ==
  \/ cop'[c] # cop[c] /\ cop'[c].op = "allChats"
  \/ cop[c].op = "allChats" /\ cpc[c] = "awaiting" /\ cpc'[c] = "idle"

\* C38: no step of AllChats creates or modifies a chat document: the chat
\* documents and their contents are the same before and after the call,
\* also when a clearMemory or clearChat of another handler overlaps it.
C38_AllChatsReadOnly ==
  [][\A c \in Listers : AllChatsStepOf(c) => chats' = chats]_vars

\* the positions of the assistant messages behind the call's user message
\* in the transcript of its chat
AnswersBehind(messages, userMessage) ==
  {j \in 1..Len(messages) :
     /\ messages[j].role = "assistant"
     /\ \E i \in 1..(j - 1) : messages[i] = userMessage}

\* C39: when a processChat call returns, what it has shown matches the
\* transcript: if it sent the error message, no assistant message was
\* appended for the turn; if it sent the answer, exactly one assistant
\* message with that content was appended after the user message.
C39_ShownMatchesTranscript ==
  [][\A h \in Handlers :
       (pc[h] # "done" /\ pc'[h] = "done") =>
         LET shown == sent'[h][Len(sent'[h])]
             messages == IF turn'[h].chatKey \in DOMAIN chats'
                           THEN Messages(chats'[turn'[h].chatKey]) ELSE <<>>
             behind == AnswersBehind(messages, turn'[h].userMessage)
         IN IF shown.content = ErrorText
              THEN behind = {}
              ELSE /\ Cardinality(behind) = 1
                   /\ \A j \in behind : messages[j].content = shown.content
    ]_vars

====
